---------------------------- MODULE Spec2Model ----------------------------
(***************************************************************************)
(* RETRIVA lost-and-found: the AI orchestration layer (model cascade, JSON *)
(* contract coercion, local similarity heuristics), the chat view and the  *)
(* dashboard's match scan as state machines.                               *)
(*                                                                         *)
(* The module holds several specifications over one set of variables; each *)
(* specification drives one component and leaves the others untouched:     *)
(*   SpecCascade    generateWithGauntlet / runCascade  (unnamed/part_004)  *)
(*   SpecOverlap    two overlapping calls of generateWithGauntlet          *)
(*   SpecHeuristic  calculateMatchScore                (unnamed/part_001)  *)
(*   SpecNormalize  confidence normalisation of compareItems               *)
(*   SpecOrch       findSmartMatches, compareItems, extractVisualDetails   *)
(*                  over callPuterAI          (services/geminiService.ts)  *)
(*   SpecMerge      allMessages of the chat view       (unnamed/part_000)  *)
(*   SpecChat       sending and mark-as-read in a direct chat; with the    *)
(*                  fairness of listeners and commits: SpecChatFair        *)
(*   SpecBlock      sending, attachments and blocking in a direct chat     *)
(*   SpecScan       the dashboard's match scan (components/Dashboard.tsx)  *)
(*   SpecCoerce     cleanJSON followed by JSON.parse                       *)
(*   SpecDash       the dashboard's scans overlapping and outliving it     *)
(*   SpecFpm        findPotentialMatches, batch by batch                   *)
(*   SpecSwitch     the chat view across a change of the active chat       *)
(***************************************************************************)
EXTENDS Integers, Sequences, FiniteSets, TLC

VARIABLES
    apiKey,        \* getApiKey() yields a key (environment of the session)
    sessionBans,   \* ModelManager.sessionBans
    calls,         \* the cascade calls of the session, by caller
    heur,          \* one evaluation of calculateMatchScore: inputs and score
    norm,          \* the confidence normalisation applied once and twice
    orch,          \* one call of an exported AI operation of geminiService
    merge,         \* one evaluation of ChatView's allMessages
    chat,          \* a direct chat: its documents and its two clients
    scan,          \* the dashboard's match scan and its cache
    json,          \* one coercion of a model answer: cleanJSON, then JSON.parse
    dash,          \* the dashboard with its match scans in flight
    fpm,           \* one call of findPotentialMatches, batch by batch
    sel            \* the chat view across a change of the active chat

cascadeVars == <<apiKey, sessionBans, calls>>

\* The components outside the cascade and the orchestrator.
auxVars == <<dash, fpm, sel>>

uiVars == <<merge, chat, scan, json, dash, fpm, sel>>

vars == <<apiKey, sessionBans, calls, heur, norm, orch, merge, chat, scan, json,
          dash, fpm, sel>>

(***************************************************************************)
(* Generic helpers.                                                        *)
(***************************************************************************)
Range(s) == {s[i] : i \in DOMAIN s}

RECURSIVE FilterSeq(_, _)
\* Array.prototype.filter with the predicate given as the set of kept values.
FilterSeq(s, keep) ==
    IF s = <<>> THEN <<>>
    ELSE IF Head(s) \in keep THEN <<Head(s)>> \o FilterSeq(Tail(s), keep)
         ELSE FilterSeq(Tail(s), keep)

\* The state of a component that a specification does not drive.
IdleHeur == [pc |-> "idle", a |-> "none", b |-> "none", score |-> 0]
IdleNorm == [pc |-> "idle", x |-> "none", once |-> "none", twice |-> "none"]
IdleOrch == [pc |-> "idle", op |-> "none"]
IdleMerge == [pc |-> "idle"]
IdleChat == [pc |-> "idle"]
IdleScan == [pc |-> "idle"]
IdleJson == [pc |-> "idle"]
IdleDash == [pc |-> "idle"]
IdleFpm == [pc |-> "idle"]
IdleSel == [pc |-> "idle"]
IdleAux == dash = IdleDash /\ fpm = IdleFpm /\ sel = IdleSel
IdleUI ==
    /\ merge = IdleMerge /\ chat = IdleChat /\ scan = IdleScan /\ json = IdleJson
    /\ IdleAux

(***************************************************************************)
(* Model Cascade Client: generateWithGauntlet with the ModelManager, and   *)
(* the later runCascade.  Models are named by their place in the list.     *)
(***************************************************************************)
NumModels == 3

Models == 1..NumModels

MODEL_PIPELINE == [i \in 1..NumModels |-> i]

MODEL_CASCADE == <<1, 2, 3>>

\* What a provider error carries: error.status and the keyword its
\* lower-cased message contains, if any.
ErrStatus == {404, 429, 500}
ErrMsg == {"", "not found", "quota"}
ProviderErrors == [status : ErrStatus, msg : ErrMsg]

NoError == [status |-> 0, msg |-> "none"]

\* ModelManager.getAvailableModels
getAvailableModels_All(bans) == MODEL_PIPELINE

getAvailableModels(bans) == FilterSeq(MODEL_PIPELINE, Models \ bans)

\* The catch block's classification of a failed request (part_004:131-139):
\* "notfound" and "quota" ban the model, "other" does not.
Classify(err) ==
    IF err.status = 404 \/ err.msg = "not found" THEN "notfound"
    ELSE IF err.status = 429 \/ err.msg = "quota" THEN "quota"
    ELSE "other"

BanClasses == {"notfound", "quota"}

\* ModelManager.banModel as applied by the catch block
BanAfter(bans, model, err) ==
    IF Classify(err) \in BanClasses THEN bans \cup {model} ELSE bans

NoResult == [k |-> "none", model |-> 0, empty |-> FALSE, err |-> "none"]
TextResult(m, e) == [k |-> "text", model |-> m, empty |-> e, err |-> "none"]
ThrowResult(e) == [k |-> "throw", model |-> 0, empty |-> FALSE, err |-> e]
NullResult == [k |-> "null", model |-> 0, empty |-> FALSE, err |-> "none"]

IdleCall ==
    [fn |-> "none", pc |-> "idle", retryCount |-> 0, pipeline |-> <<>>,
     idx |-> 0, inflight |-> {}, result |-> NoResult,
     reqs |-> <<>>, log |-> <<>>, resets |-> 0, bansAtEntry |-> {},
     passes |-> 0, lastErr |-> NoError, lastBefore |-> FALSE,
     lastAfter |-> FALSE]

\* generateWithGauntlet from its entry to its first await (part_004:73-117),
\* for a call record c already carrying retryCount.  Yields the call record
\* and the exclusion set.
GauntletEnter(c, bans) ==
    IF ~apiKey
    THEN [call |-> [c EXCEPT !.pc = "done", !.result = ThrowResult("MISSING_API_KEY")],
          bans |-> bans]
    ELSE
      LET heal == getAvailableModels(bans) = <<>> /\ c.retryCount = 0
          bans1 == IF heal THEN {} ELSE bans
          pipeline == getAvailableModels(bans1)
          c1 == [c EXCEPT !.pipeline = pipeline, !.idx = 0, !.reqs = <<>>,
                          !.log = <<>>, !.inflight = {},
                          !.bansAtEntry = bans1,
                          !.resets = IF heal THEN @ + 1 ELSE @]
      IN IF pipeline = <<>>
         THEN [call |-> [c1 EXCEPT !.pc = "done",
                                   !.result = ThrowResult("ALL_MODELS_FAILED")],
               bans |-> bans1]
         ELSE [call |-> [c1 EXCEPT !.pc = "await", !.idx = 1,
                                   !.passes = @ + 1,
                                   !.inflight = {pipeline[1]},
                                   !.reqs = <<pipeline[1]>>],
               bans |-> bans1]

\* The success path of one loop iteration (part_004:113-120).
GauntletOnSuccess_Continue(c, empty) ==
    LET m == c.pipeline[c.idx]
        c1 == [c EXCEPT !.inflight = {},
                        !.log = Append(@, [model |-> m, cls |-> IF empty THEN "empty" ELSE "ok"])]
    IN IF c.idx < Len(c.pipeline)
       THEN [c1 EXCEPT !.idx = @ + 1, !.inflight = {c.pipeline[c.idx + 1]},
                       !.reqs = Append(@, c.pipeline[c.idx + 1])]
       ELSE [c1 EXCEPT !.pc = "done", !.result = TextResult(m, empty)]

GauntletOnSuccess(c, empty) ==
    LET m == c.pipeline[c.idx]
    IN [c EXCEPT !.pc = "done", !.inflight = {},
                 !.result = TextResult(m, empty),
                 !.log = Append(@, [model |-> m, cls |-> IF empty THEN "empty" ELSE "ok"])]

\* The catch path of one loop iteration and what follows it up to the next
\* await or the end of the call (part_004:122-152).
GauntletOnError(c, bans, err) ==
    LET m == c.pipeline[c.idx]
        bans1 == BanAfter(bans, m, err)
        c1 == [c EXCEPT !.inflight = {},
                        !.log = Append(@, [model |-> m, cls |-> Classify(err)]),
                        !.lastErr = err,
                        !.lastBefore = (m \in bans),
                        !.lastAfter = (m \in bans1)]
    IN IF c.idx < Len(c.pipeline)
       THEN [call |-> [c1 EXCEPT !.idx = @ + 1,
                                 !.inflight = {c.pipeline[c.idx + 1]},
                                 !.reqs = Append(@, c.pipeline[c.idx + 1])],
             bans |-> bans1]
       ELSE IF c.retryCount = 0
            THEN GauntletEnter([c1 EXCEPT !.retryCount = 1], bans1)
            ELSE [call |-> [c1 EXCEPT !.pc = "done",
                                      !.result = ThrowResult("lastError")],
                  bans |-> bans1]

\* runCascade from its entry to its first await (part_004:554-577).
CascadeEnter(c) ==
    IF ~apiKey
    THEN [c EXCEPT !.pc = "done", !.result = NullResult]
    ELSE [c EXCEPT !.pc = "await", !.pipeline = MODEL_CASCADE, !.idx = 1,
                   !.passes = 1,
                   !.inflight = {MODEL_CASCADE[1]}, !.reqs = <<MODEL_CASCADE[1]>>]

\* One loop iteration of runCascade after its await (part_004:579-591):
\* cls is "ok" (a response with text), "empty" (a response without text)
\* or "error" (the request threw).
CascadeOnResponse(c, cls) ==
    LET m == c.pipeline[c.idx]
        c1 == [c EXCEPT !.inflight = {},
                        !.log = Append(@, [model |-> m, cls |-> cls])]
    IN IF cls = "ok"
       THEN [c1 EXCEPT !.pc = "done", !.result = TextResult(m, FALSE)]
       ELSE IF c.idx < Len(c.pipeline)
            THEN [c1 EXCEPT !.idx = @ + 1,
                            !.inflight = {c.pipeline[c.idx + 1]},
                            !.reqs = Append(@, c.pipeline[c.idx + 1])]
            ELSE [c1 EXCEPT !.pc = "done", !.result = NullResult]

Callers == DOMAIN calls

FreshCall(fn) == [IdleCall EXCEPT !.fn = fn]

\* A caller invokes generateWithGauntlet(params, systemInstruction).
GauntletStart(c) ==
    /\ calls[c].pc \in {"idle", "done"}
    /\ LET r == GauntletEnter(FreshCall("gauntlet"), sessionBans)
       IN /\ calls' = [calls EXCEPT ![c] = r.call]
          /\ sessionBans' = r.bans
    /\ UNCHANGED <<apiKey, heur, norm, orch, uiVars>>

\* ai.models.generateContent resolves for the model in flight.
GauntletSuccess(c) ==
    /\ calls[c].pc = "await" /\ calls[c].fn = "gauntlet"
    /\ \E empty \in BOOLEAN :
          calls' = [calls EXCEPT ![c] = GauntletOnSuccess(calls[c], empty)]
    /\ UNCHANGED <<apiKey, sessionBans, heur, norm, orch, uiVars>>

\* ai.models.generateContent rejects for the model in flight.
GauntletError(c) ==
    /\ calls[c].pc = "await" /\ calls[c].fn = "gauntlet"
    /\ \E err \in ProviderErrors :
          LET r == GauntletOnError(calls[c], sessionBans, err)
          IN /\ calls' = [calls EXCEPT ![c] = r.call]
             /\ sessionBans' = r.bans
    /\ UNCHANGED <<apiKey, heur, norm, orch, uiVars>>

\* A caller invokes runCascade(params).
CascadeStart(c) ==
    /\ calls[c].pc \in {"idle", "done"}
    /\ calls' = [calls EXCEPT ![c] = CascadeEnter(FreshCall("cascade"))]
    /\ UNCHANGED <<apiKey, sessionBans, heur, norm, orch, uiVars>>

\* The request of runCascade in flight resolves or rejects.
CascadeResponse(c) ==
    /\ calls[c].pc = "await" /\ calls[c].fn = "cascade"
    /\ \E cls \in {"ok", "empty", "error"} :
          calls' = [calls EXCEPT ![c] = CascadeOnResponse(calls[c], cls)]
    /\ UNCHANGED <<apiKey, sessionBans, heur, norm, orch, uiVars>>

InitCascade ==
    /\ apiKey \in BOOLEAN
    /\ sessionBans = {}
    /\ calls = [c \in {1} |-> IdleCall]
    /\ heur = IdleHeur /\ norm = IdleNorm /\ orch = IdleOrch /\ IdleUI

NextCascade ==
    \/ \E c \in Callers : GauntletStart(c)
    \/ \E c \in Callers : GauntletSuccess(c)
    \/ \E c \in Callers : GauntletError(c)
    \/ \E c \in Callers : CascadeStart(c)
    \/ \E c \in Callers : CascadeResponse(c)

SpecCascade == InitCascade /\ [][NextCascade]_vars

\* Two callers in one session: their calls overlap and share the
\* ModelManager.
InitOverlap ==
    /\ apiKey = TRUE
    /\ sessionBans = {}
    /\ calls = [c \in {1, 2} |-> IdleCall]
    /\ heur = IdleHeur /\ norm = IdleNorm /\ orch = IdleOrch /\ IdleUI

\* Each caller makes one call of generateWithGauntlet.
NextOverlap ==
    \/ \E c \in Callers : calls[c].pc = "idle" /\ GauntletStart(c)
    \/ \E c \in Callers : GauntletSuccess(c)
    \/ \E c \in Callers : GauntletError(c)

SpecOverlap == InitOverlap /\ [][NextOverlap]_vars

(***************************************************************************)
(* JavaScript strings, as sequences of one-character strings.              *)
(***************************************************************************)
UpperChars == <<"A", "B", "C", "D", "E", "F", "G", "H", "I", "J", "K", "L", "M",
                "N", "O", "P", "Q", "R", "S", "T", "U", "V", "W", "X", "Y", "Z">>
LowerChars == <<"a", "b", "c", "d", "e", "f", "g", "h", "i", "j", "k", "l", "m",
                "n", "o", "p", "q", "r", "s", "t", "u", "v", "w", "x", "y", "z">>
DigitChars == <<"0", "1", "2", "3", "4", "5", "6", "7", "8", "9">>

\* \w and \s of a JavaScript regular expression
IsWordChar(c) == c \in Range(UpperChars) \cup Range(LowerChars) \cup Range(DigitChars) \cup {"_"}
IsSpaceChar(c) == c \in {" ", "\t", "\n"}

toLowerChar(c) ==
    IF c \in Range(UpperChars)
    THEN LowerChars[CHOOSE i \in DOMAIN UpperChars : UpperChars[i] = c]
    ELSE IF c = "É" THEN "é"
    ELSE c

\* String.prototype.toLowerCase
toLowerCase(s) == [i \in 1..Len(s) |-> toLowerChar(s[i])]

RECURSIVE RemoveChars(_, _)
\* s.replace(/[...]/g, '') with the set of characters to drop
RemoveChars(s, drop) ==
    IF s = <<>> THEN <<>>
    ELSE IF Head(s) \in drop THEN RemoveChars(Tail(s), drop)
         ELSE <<Head(s)>> \o RemoveChars(Tail(s), drop)

RECURSIVE SplitFrom(_, _, _, _)
SplitFrom(s, i, cur, sep) ==
    IF i > Len(s) THEN <<cur>>
    ELSE IF s[i] \in sep
         THEN IF i > 1 /\ s[i - 1] \in sep
              THEN SplitFrom(s, i + 1, cur, sep)
              ELSE <<cur>> \o SplitFrom(s, i + 1, <<>>, sep)
         ELSE SplitFrom(s, i + 1, Append(cur, s[i]), sep)

\* s.split(/[sep]+/): the pieces between maximal runs of separators, the
\* empty pieces at either end included ("".split gives [""]).
Split(s, sep) == SplitFrom(s, 1, <<>>, sep)

\* s.split(/\s+/) and s.split(/\W+/)
SplitSpaces(s) == Split(s, {c \in Range(s) : IsSpaceChar(c)})
SplitNonWord(s) == Split(s, {c \in Range(s) : ~IsWordChar(c)})

\* String.prototype.includes
includes(s, t) ==
    \E i \in 0..(Len(s) - Len(t)) : SubSeq(s, i + 1, i + Len(t)) = t

RECURSIVE join(_, _)
\* Array.prototype.join
join(list, sep) ==
    IF list = <<>> THEN <<>>
    ELSE IF Len(list) = 1 THEN list[1]
         ELSE list[1] \o sep \o join(Tail(list), sep)

(***************************************************************************)
(* Item reports (types.ts: ItemReport).                                    *)
(***************************************************************************)
ReportTypes == {"LOST", "FOUND"}
ItemCategories == {"Electronics", "Accessories", "Other"}

\* String constants of the checked inputs.
S_Empty == <<>>
S_BlackIPhone13 == <<"B", "l", "a", "c", "k", " ", "i", "P", "h", "o", "n", "e", " ", "1", "3">>
S_IPhoneFound == <<"i", "P", "h", "o", "n", "e", " ", "f", "o", "u", "n", "d", " ", "n", "e", "a", "r", " ", "l", "i", "b", "r", "a", "r", "y">>
S_BlackIPhoneCase == <<"B", "l", "a", "c", "k", " ", "i", "P", "h", "o", "n", "e", " ", "c", "a", "s", "e">>
S_BlackIphoneLower == <<"b", "l", "a", "c", "k", ",", " ", "i", "p", "h", "o", "n", "e", "!">>
S_Apple == <<"A", "p", "p", "l", "e">>
S_Phone == <<"P", "h", "o", "n", "e">>
S_AppleLower == <<"a", "p", "p", "l", "e">>
S_Library == <<"L", "i", "b", "r", "a", "r", "y">>
S_MainLibrary == <<"m", "a", "i", "n", " ", "l", "i", "b", "r", "a", "r", "y", ",", " ", "2", "n", "d", " ", "f", "l", "o", "o", "r">>
S_Cafeteria == <<"C", "a", "f", "e", "t", "e", "r", "i", "a">>
S_Cafe == <<"C", "a", "f", "é">>

(***************************************************************************)
(* Similarity Heuristic: calculateMatchScore (unnamed/part_001:24-60).     *)
(***************************************************************************)
\* const clean = (s) => s.toLowerCase().replace(/[^\w\s]/g, '')
clean(s) ==
    LET l == toLowerCase(s)
    IN RemoveChars(l, {c \in Range(l) : ~IsWordChar(c) /\ ~IsSpaceChar(c)})

\* new Set(text.split(/\s+/).filter(w => w.length > 3))
LongWords(text) == {w \in Range(SplitSpaces(text)) : Len(w) > 3}

titleAndTags(item) == clean(item.title \o <<" ">> \o join(item.tags, <<" ">>))

intersectionCount(item1, item2) ==
    Cardinality(LongWords(titleAndTags(item1)) \cap LongWords(titleAndTags(item2)))

locationNear(item1, item2) ==
    \/ includes(clean(item1.location), clean(item2.location))
    \/ includes(clean(item2.location), clean(item1.location))

calculateMatchScore_NoCategoryGate(item1, item2) ==
    IF item1.id = item2.id \/ item1.type = item2.type THEN 0
    ELSE (IF intersectionCount(item1, item2) > 0
          THEN 40 + intersectionCount(item1, item2) * 15 ELSE 0)
         + (IF locationNear(item1, item2) THEN 20 ELSE 0)

calculateMatchScore(item1, item2) ==
    IF item1.id = item2.id \/ item1.type = item2.type THEN 0
    ELSE IF item1.category # item2.category THEN 0
    ELSE (IF intersectionCount(item1, item2) > 0
          THEN 40 + intersectionCount(item1, item2) * 15 ELSE 0)
         + (IF locationNear(item1, item2) THEN 20 ELSE 0)

\* The inputs of the checked evaluations.
HeurItemsA ==
    [id : {"r1"}, type : ReportTypes, category : {"Electronics", "Other"},
     title : {S_BlackIPhone13, S_IPhoneFound, S_Cafe, S_Empty},
     tags : {<<>>, <<S_Apple, S_Phone>>},
     location : {S_Empty, S_Library}]

HeurItemsB ==
    [id : {"r1", "r2"}, type : ReportTypes, category : ItemCategories,
     title : {S_BlackIPhone13, S_BlackIPhoneCase, S_BlackIphoneLower, S_Cafe, S_Empty},
     tags : {<<>>, <<S_AppleLower, S_Phone>>},
     location : {S_Library, S_MainLibrary, S_Cafeteria}]

InitHeuristic ==
    /\ heur \in [pc : {"input"}, a : HeurItemsA, b : HeurItemsB, score : {0}]
    /\ apiKey = TRUE /\ sessionBans = {} /\ calls = <<>>
    /\ norm = IdleNorm /\ orch = IdleOrch /\ IdleUI

\* The dashboard evaluates calculateMatchScore(sourceItem, r).
Score ==
    /\ heur.pc = "input"
    /\ heur' = [heur EXCEPT !.pc = "scored",
                            !.score = calculateMatchScore(heur.a, heur.b)]
    /\ UNCHANGED <<cascadeVars, norm, orch, uiVars>>

NextHeuristic == Score

SpecHeuristic == InitHeuristic /\ [][NextHeuristic]_vars

(***************************************************************************)
(* JavaScript values of a parsed model answer.  A number is the rational   *)
(* n/d (d > 0); NaN, undefined, null and strings are values of their own.  *)
(***************************************************************************)
Num(n, d) == [t |-> "num", n |-> n, d |-> d, s |-> <<>>]
Whole(n) == Num(n, 1)
NaN == [t |-> "nan", n |-> 0, d |-> 1, s |-> <<>>]
Undefined == [t |-> "undef", n |-> 0, d |-> 1, s |-> <<>>]
Null == [t |-> "null", n |-> 0, d |-> 1, s |-> <<>>]
Str(chars) == [t |-> "str", n |-> 0, d |-> 1, s |-> chars]

\* typeof v === 'number' (NaN is a number), typeof v === 'string'
IsNumberType(v) == v.t \in {"num", "nan"}
IsStringType(v) == v.t = "str"

\* Comparisons with a NaN operand are false.
NumLess(a, b) == a.t = "num" /\ b.t = "num" /\ a.n * b.d < b.n * a.d
NumLeq(a, b) == a.t = "num" /\ b.t = "num" /\ a.n * b.d <= b.n * a.d
NumEq(a, b) == a.t = "num" /\ b.t = "num" /\ a.n * b.d = b.n * a.d

NumAdd(a, b) ==
    IF a.t = "num" /\ b.t = "num" THEN Num(a.n * b.d + b.n * a.d, a.d * b.d) ELSE NaN
NumMul(a, b) ==
    IF a.t = "num" /\ b.t = "num" THEN Num(a.n * b.n, a.d * b.d) ELSE NaN

\* Math.min(a, b), Math.round(a): round half up; NaN stays NaN.
MathMin(a, b) ==
    IF a.t # "num" \/ b.t # "num" THEN NaN
    ELSE IF NumLeq(a, b) THEN a ELSE b
MathRound(a) ==
    IF a.t # "num" THEN NaN ELSE Whole((2 * a.n + a.d) \div (2 * a.d))

\* An integer in [0, 100]
IsPercentInt(v) ==
    /\ v.t = "num"
    /\ v.n % v.d = 0
    /\ 0 <= v.n /\ v.n <= 100 * v.d

DigitValue(c) == (CHOOSE i \in DOMAIN DigitChars : DigitChars[i] = c) - 1
IsDigit(c) == c \in Range(DigitChars)

RECURSIVE SkipSpaces(_)
SkipSpaces(s) ==
    IF s # <<>> /\ IsSpaceChar(Head(s)) THEN SkipSpaces(Tail(s)) ELSE s

RECURSIVE DigitRun(_)
\* the longest prefix of digits
DigitRun(s) ==
    IF s # <<>> /\ IsDigit(Head(s)) THEN <<Head(s)>> \o DigitRun(Tail(s)) ELSE <<>>

RECURSIVE DigitsValue(_)
DigitsValue(ds) ==
    IF ds = <<>> THEN 0
    ELSE DigitsValue(SubSeq(ds, 1, Len(ds) - 1)) * 10 + DigitValue(ds[Len(ds)])

RECURSIVE Pow10(_)
Pow10(k) == IF k = 0 THEN 1 ELSE 10 * Pow10(k - 1)

\* parseFloat(s): leading white space, an optional sign, digits, an optional
\* fraction; the longest such prefix is the value, NaN when there is none
\* (exponents and Infinity are not among the checked inputs).
parseFloat(s) ==
    LET t == SkipSpaces(s)
        neg == t # <<>> /\ Head(t) = "-"
        u == IF t # <<>> /\ Head(t) \in {"-", "+"} THEN Tail(t) ELSE t
        ip == DigitRun(u)
        rest == SubSeq(u, Len(ip) + 1, Len(u))
        fp == IF rest # <<>> /\ Head(rest) = "." THEN DigitRun(Tail(rest)) ELSE <<>>
        mag == DigitsValue(ip) * Pow10(Len(fp)) + DigitsValue(fp)
    IN IF ip = <<>> /\ fp = <<>> THEN NaN
       ELSE Num(IF neg THEN 0 - mag ELSE mag, Pow10(Len(fp)))

RECURSIVE ReplaceFirst(_, _)
\* s.replace(c, ''): the first occurrence of the character c removed
ReplaceFirst(s, c) ==
    IF s = <<>> THEN <<>>
    ELSE IF Head(s) = c THEN Tail(s)
         ELSE <<Head(s)>> \o ReplaceFirst(Tail(s), c)

(***************************************************************************)
(* Response Contract Coercion: the confidence normalisation of compareItems*)
(* (services/geminiService.ts:470-495).                                    *)
(***************************************************************************)
\* lines 471-485: string -> parseFloat, fraction in (0,1] -> percent,
\* anything that is not a number -> 50
coerceConfidence(conf) ==
    LET c1 == IF IsStringType(conf) THEN parseFloat(ReplaceFirst(conf.s, "%")) ELSE conf
    IN IF IsNumberType(c1)
       THEN IF NumLeq(c1, Whole(1)) /\ NumLess(Whole(0), c1) THEN NumMul(c1, Whole(100)) ELSE c1
       ELSE Whole(50)

\* line 494: Math.round(Math.min(conf, 100))
finishConfidence(conf) == MathRound(MathMin(conf, Whole(100)))

\* The normalisation without the similarity boost of lines 487-490.
normalizeConfidence(conf) == finishConfidence(coerceConfidence(conf))

\* The confidence values of the checked model answers.
S_95pct == <<"9", "5", "%">>
S_0_95 == <<"0", ".", "9", "5">>
S_abc == <<"a", "b", "c">>
S_minus5 == <<"-", "5">>
S_150pct == <<"1", "5", "0", "%">>
S_dot5 == <<".", "5">>
S_sp7 == <<" ", "7">>

ConfidenceNumbers ==
    {Whole(n) : n \in {-20, -1, 0, 1, 2, 10, 49, 50, 59, 60, 95, 99, 100, 101, 150}}
    \cup {Num(n, 1000) : n \in {-500, 4, 5, 6, 14, 15, 500, 950, 1000, 1400, 1500, 99500}}

ConfidenceStrings ==
    {Str(x) : x \in {S_95pct, S_0_95, S_abc, S_minus5, S_150pct, S_dot5, S_sp7, S_Empty}}

ConfidenceValues == ConfidenceNumbers \cup ConfidenceStrings \cup {Undefined, Null}

InitNormalize ==
    /\ norm \in [pc : {"input"}, x : ConfidenceValues, once : {Undefined}, twice : {Undefined}]
    /\ apiKey = TRUE /\ sessionBans = {} /\ calls = <<>>
    /\ heur = IdleHeur /\ orch = IdleOrch /\ IdleUI

\* The normalisation is applied to the confidence field of an answer ...
NormalizeOnce ==
    /\ norm.pc = "input"
    /\ norm' = [norm EXCEPT !.pc = "once", !.once = normalizeConfidence(norm.x)]
    /\ UNCHANGED <<cascadeVars, heur, orch, uiVars>>

\* ... and again to its own result.
NormalizeTwice ==
    /\ norm.pc = "once"
    /\ norm' = [norm EXCEPT !.pc = "twice", !.twice = normalizeConfidence(norm.once)]
    /\ UNCHANGED <<cascadeVars, heur, orch, uiVars>>

NextNormalize == NormalizeOnce \/ NormalizeTwice

SpecNormalize == InitNormalize /\ [][NextNormalize]_vars

\* Further string constants of the checked inputs.
S_BlackIphone13Bang == <<"b", "l", "a", "c", "k", " ", "i", "p", "h", "o", "n", "e", " ", "1", "3", "!">>
S_LostNearLibrary == <<"L", "o", "s", "t", " ", "n", "e", "a", "r", " ", "l", "i", "b", "r", "a", "r", "y">>
S_LostNearTheLibrary == <<"l", "o", "s", "t", " ", "n", "e", "a", "r", " ", "t", "h", "e", " ", "L", "I", "B", "R", "A", "R", "Y">>
S_TV == <<"T", "V">>
S_85 == <<"8", "5">>

(***************************************************************************)
(* Text similarity and the local comparison                                *)
(* (services/geminiService.ts:50-60, 113-157).                             *)
(***************************************************************************)
\* new Set(str.toLowerCase().split(/\W+/).filter(x => x.length > 2))
SimWords(str) == {w \in Range(SplitNonWord(toLowerCase(str))) : Len(w) > 2}

\* calculateTextSimilarity: the Jaccard index of the two word sets, 0 when
\* either set is empty.
calculateTextSimilarity(str1, str2) ==
    LET set1 == SimWords(str1)
        set2 == SimWords(str2)
    IN IF set1 = {} \/ set2 = {} THEN Whole(0)
       ELSE Num(Cardinality(set1 \cap set2), Cardinality(set1 \cup set2))

\* fallbackComparison: the confidence it returns
fallbackScore(item1, item2) ==
    LET titleSim == calculateTextSimilarity(item1.title, item2.title)
        descSim == calculateTextSimilarity(item1.description, item2.description)
        s1 == IF item1.category = item2.category THEN Whole(25) ELSE Whole(0)
        s2 == IF NumLess(Num(8, 10), titleSim) THEN Whole(35)
              ELSE IF NumLess(Num(4, 10), titleSim) THEN Whole(20) ELSE Whole(0)
        s3 == IF NumLess(Num(8, 10), descSim) THEN Whole(40)
              ELSE IF NumLess(Num(3, 10), descSim)
                   THEN NumAdd(Whole(15), NumMul(descSim, Whole(20)))
                   ELSE Whole(0)
        s4 == IF item1.date = item2.date THEN Whole(5) ELSE Whole(0)
    IN NumAdd(NumAdd(s1, s2), NumAdd(s3, s4))

fallbackComparison(item1, item2) ==
    [k |-> "return", src |-> "fallback",
     confidence |-> MathMin(MathRound(fallbackScore(item1, item2)), Whole(99))]

(***************************************************************************)
(* The AI provider boundary: callPuterAI                                   *)
(* (services/geminiService.ts:63-110).                                     *)
(*                                                                         *)
(* A text is what it parses to: k = "empty" (the empty string),            *)
(* "unparsable" (JSON.parse(cleanJSON(text)) throws: not JSON, or a        *)
(* content that is not a string) or "json" with the parsed value v.  A parsed value is JSON null, a scalar or array (its    *)
(* properties are undefined) or an object with the fields the operations   *)
(* read.                                                                   *)
(***************************************************************************)
NoMatches == [t |-> "undef", items |-> <<>>]
ParsedNull == [t |-> "null", confidence |-> Undefined, matches |-> NoMatches]
ParsedScalar == [t |-> "scalar", confidence |-> Undefined, matches |-> NoMatches]
ParsedObject(conf, matches) == [t |-> "obj", confidence |-> conf, matches |-> matches]

NullText == [k |-> "null", v |-> ParsedNull]
UndefinedText == [k |-> "undefined", v |-> ParsedNull]
EmptyText == [k |-> "empty", v |-> ParsedNull]
UnparsableText == [k |-> "unparsable", v |-> ParsedNull]
JsonText(v) == [k |-> "json", v |-> v]

\* if (!text): null, undefined and "" are falsy
Falsy(text) == text.k \in {"null", "undefined", "empty"}

\* What puter.ai.chat does: shape "noputer" (typeof puter === 'undefined'),
\* "throw" (it rejects), "string" (a raw string), "message"
\* ({message: {content}}), "text" ({text}), "object" (any other object),
\* "null", "undefined"; body is the text carried.  retried: the first attempt
\* rejected with 401, puter.auth.signIn() resolved and the outcome is that
\* of the second attempt.
ProviderOutcome(shape, body, retried) == [shape |-> shape, body |-> body, retried |-> retried]

\* lines 68-109: null when puter is missing or the request fails; otherwise
\* the string itself, else a truthy message.content, else a truthy text, else
\* JSON.stringify(response)
callPuterAI(out) ==
    IF out.shape \in {"noputer", "throw"} THEN NullText
    ELSE IF out.shape = "string" THEN out.body
    ELSE IF out.shape \in {"message", "text"} /\ out.body.k # "empty" THEN out.body
    ELSE IF out.shape = "null" THEN JsonText(ParsedNull)
    ELSE IF out.shape = "undefined" THEN UndefinedText
    ELSE JsonText(ParsedObject(Undefined, NoMatches))

\* The puter.ai.chat requests one callPuterAI call issues.
RequestsIssued(out) ==
    IF out.shape = "noputer" THEN 0 ELSE IF out.retried THEN 2 ELSE 1

\* JSON.parse(cleanJSON(text)) for a truthy text: the parsed value, or a
\* SyntaxError.
ParseThrows(text) == text.k = "unparsable"
ParseValue(text) == text.v

(***************************************************************************)
(* compareItems (services/geminiService.ts:413-501).                       *)
(***************************************************************************)
PinnedResult == [k |-> "return", src |-> "precheck", confidence |-> Whole(99)]

\* lines 415-426: the deterministic pre-check
preCheck(item1, item2) ==
    /\ NumLess(Num(9, 10), calculateTextSimilarity(item1.title, item2.title))
    /\ NumLess(Num(9, 10), calculateTextSimilarity(item1.description, item2.description))

\* lines 487-490: the boost
boostConfidence(conf, item1, item2) ==
    IF /\ \/ NumLess(Num(8, 10), calculateTextSimilarity(item1.title, item2.title))
          \/ NumLess(Num(8, 10), calculateTextSimilarity(item1.description, item2.description))
       /\ NumLess(conf, Whole(60))
    THEN NumAdd(conf, Whole(30)) ELSE conf

\* lines 464-500: what compareItems returns once callPuterAI has resolved
compareItemsAfterAI(item1, item2, out) ==
    LET text == callPuterAI(out)
    IN IF Falsy(text) \/ ParseThrows(text) \/ ParseValue(text).t = "null"
       THEN fallbackComparison(item1, item2)
       ELSE [k |-> "return", src |-> "ai",
             confidence |->
                 finishConfidence(
                     boostConfidence(coerceConfidence(ParseValue(text).confidence),
                                     item1, item2))]

\* lines 285-326 of extractVisualDetails once callPuterAI has resolved: the
\* parsed fields, or the defaults
extractVisualDetailsAfterAI(out) ==
    LET text == callPuterAI(out)
    IN IF Falsy(text) \/ ParseThrows(text) \/ ParseValue(text).t = "null"
       THEN [k |-> "return", src |-> "defaults"]
       ELSE [k |-> "return", src |-> "ai"]

(***************************************************************************)
(* findSmartMatches (services/geminiService.ts:161-239).                   *)
(***************************************************************************)
CandidateCap == 10

targetType(sourceItem) == IF sourceItem.type = "LOST" THEN "FOUND" ELSE "LOST"

\* lines 166-170
filterCandidates(sourceItem, allReports) ==
    FilterSeq(allReports,
              {r \in Range(allReports) :
                   /\ r.status = "OPEN"
                   /\ r.type = targetType(sourceItem)
                   /\ r.id # sourceItem.id})

\* The category pre-filter that keeps an empty narrowing.
narrowCandidates_KeepsEmpty(sourceItem, candidates) ==
    LET strictMatches ==
            FilterSeq(candidates,
                      {c \in Range(candidates) : c.category = sourceItem.category})
        narrowed == IF sourceItem.category # "Other"
                    THEN strictMatches ELSE candidates
    IN IF Len(narrowed) > CandidateCap THEN SubSeq(narrowed, 1, CandidateCap)
       ELSE narrowed

\* lines 175-180: the category pre-filter and the cap
narrowCandidates(sourceItem, candidates) ==
    LET strictMatches ==
            FilterSeq(candidates,
                      {c \in Range(candidates) : c.category = sourceItem.category})
        narrowed == IF sourceItem.category # "Other" /\ strictMatches # <<>>
                    THEN strictMatches ELSE candidates
    IN IF Len(narrowed) > CandidateCap THEN SubSeq(narrowed, 1, CandidateCap)
       ELSE narrowed

\* What data.matches can be: absent, a falsy value, an array of entries, or
\* a truthy value that is no array (t = "object": a number, true, an
\* object, a string).  An entry is JSON null or an object with id and
\* confidence.
MatchArray(items) == [t |-> "arr", items |-> items]
FalsyMatches == [t |-> "falsy", items |-> <<>>]
NonArrayMatches == [t |-> "object", items |-> <<>>]
MatchEntry(id, conf) == [t |-> "obj", id |-> id, confidence |-> conf]
NullEntry == [t |-> "null", id |-> "", confidence |-> Undefined]

\* ToNumber, as Math.round applies it to m.confidence
ToNumber(v) ==
    IF v.t \in {"num", "nan"} THEN v
    ELSE IF v.t = "null" THEN Whole(0)
    ELSE IF v.t = "undef" THEN NaN
    ELSE LET t == SkipSpaces(v.s)
             u == IF t # <<>> /\ Head(t) \in {"-", "+"} THEN Tail(t) ELSE t
             ip == DigitRun(u)
             rest == SubSeq(u, Len(ip) + 1, Len(u))
             fp == IF rest # <<>> /\ Head(rest) = "." THEN DigitRun(Tail(rest)) ELSE <<>>
             used == Len(ip) + (IF rest # <<>> /\ Head(rest) = "." THEN 1 + Len(fp) ELSE 0)
         IN IF t = <<>> THEN Whole(0)
            ELSE IF used = Len(u) THEN parseFloat(v.s) ELSE NaN

\* lines 223-230: the local scores of the candidates, those above 20 kept
localScore(sourceItem, c) ==
    LET titleSim == calculateTextSimilarity(sourceItem.title, c.title)
        descSim == calculateTextSimilarity(sourceItem.description, c.description)
        score == NumAdd(NumMul(titleSim, Whole(50)), NumMul(descSim, Whole(50)))
    IN MathMin(IF c.category = sourceItem.category THEN NumAdd(score, Whole(10)) ELSE score,
               Whole(100))

RECURSIVE localMatches(_, _)
localMatches(sourceItem, candidates) ==
    IF candidates = <<>> THEN <<>>
    ELSE LET c == Head(candidates)
             conf == localScore(sourceItem, c)
         IN (IF NumLess(Whole(20), conf) THEN <<MatchEntry(c.id, conf)>> ELSE <<>>)
            \o localMatches(sourceItem, Tail(candidates))

\* lines 233-236: each entry resolved to its candidate, the unknown dropped
RECURSIVE resolveMatches(_, _, _)
resolveMatches(matchResults, candidates, usedAI) ==
    IF matchResults = <<>> THEN <<>>
    ELSE LET m == Head(matchResults)
             found == FilterSeq(candidates, {c \in Range(candidates) : c.id = m.id})
         IN (IF found # <<>>
             THEN <<[report |-> Head(found),
                     confidence |-> MathRound(ToNumber(m.confidence)),
                     isOffline |-> ~usedAI]>>
             ELSE <<>>)
            \o resolveMatches(Tail(matchResults), candidates, usedAI)

\* line 238: results.sort((a, b) => b.confidence - a.confidence).  The sort
\* is stable; a NaN confidence makes the comparator inconsistent, and the
\* order is then whatever the engine produces.
RECURSIVE insertDescending(_, _)
insertDescending(sorted, e) ==
    IF sorted = <<>> THEN <<e>>
    ELSE IF NumLess(Head(sorted).confidence, e.confidence) THEN <<e>> \o sorted
         ELSE <<Head(sorted)>> \o insertDescending(Tail(sorted), e)

RECURSIVE sortDescending(_)
sortDescending(results) ==
    IF results = <<>> THEN <<>>
    ELSE insertDescending(sortDescending(SubSeq(results, 1, Len(results) - 1)),
                          results[Len(results)])

Orderings(results) ==
    {[i \in DOMAIN results |-> results[f[i]]] :
         f \in {g \in [DOMAIN results -> DOMAIN results] :
                    \A i, j \in DOMAIN results : i # j => g[i] # g[j]}}

sortOutcomes(results) ==
    IF \E i \in DOMAIN results : results[i].confidence.t # "num"
    THEN Orderings(results)
    ELSE {sortDescending(results)}

FindReturn(src, matches) == [k |-> "return", src |-> src, matches |-> matches]
FindThrow == [k |-> "throw", src |-> "TypeError", matches |-> <<>>]

\* lines 209-238: the results findSmartMatches can complete with once
\* callPuterAI has resolved.  Inside the try: a falsy text leaves usedAI
\* false; a parse error or data = null is caught.  Outside the try:
\* matchResults.length, matchResults.map and m.id are evaluated unguarded.
findSmartMatchesAfterAI(sourceItem, candidates, out) ==
    LET text == callPuterAI(out)
        usedAI == ~Falsy(text) /\ ~ParseThrows(text) /\ ParseValue(text).t # "null"
        given == IF usedAI THEN ParseValue(text).matches ELSE NoMatches
        isArray == given.t \in {"undef", "falsy", "arr"}
        fallback == ~usedAI \/ (isArray /\ given.items = <<>>)
        matchResults == IF fallback THEN localMatches(sourceItem, candidates)
                        ELSE given.items
    IN IF ~fallback /\ ~isArray THEN {FindThrow}
       ELSE IF \E i \in DOMAIN matchResults : matchResults[i].t = "null" THEN {FindThrow}
       ELSE {FindReturn(IF usedAI THEN "ai" ELSE "local", sorted) :
                 sorted \in sortOutcomes(resolveMatches(matchResults, candidates, usedAI))}

(***************************************************************************)
(* The local matching of the cascade client                                *)
(* (unnamed/part_004:478-518).                                             *)
(***************************************************************************)
\* s.toLowerCase().replace(/[^\w\s]/g, '').split(/\s+/)
keywordWords(s) == SplitSpaces(clean(s))

\* localKeywordMatch: the query words longer than 2 characters that occur
\* inside some word of the text, counted with repetition
RECURSIVE countHits(_, _)
countHits(qWords, tWords) ==
    IF qWords = <<>> THEN 0
    ELSE (IF \E i \in DOMAIN tWords : includes(tWords[i], Head(qWords)) THEN 1 ELSE 0)
         + countHits(Tail(qWords), tWords)

localKeywordMatch(query, text) ==
    LET all == keywordWords(query)
        qWords == FilterSeq(all, {w \in Range(all) : Len(w) > 2})
    IN countHits(qWords, keywordWords(text))

\* lines 497-507: the score of one candidate
localFallbackScore(queryTitle, queryDescription, c) ==
    LET titleHits == localKeywordMatch(queryTitle, c.title)
        descHits == localKeywordMatch(queryTitle \o <<" ">> \o queryDescription, c.description)
        text == toLowerCase(queryTitle \o queryDescription)
        sharedTags == FilterSeq(c.tags, {t \in Range(c.tags) : includes(text, toLowerCase(t))})
    IN (IF titleHits > 0 THEN 40 ELSE 0) + (IF descHits > 0 THEN 20 ELSE 0)
       + Len(sharedTags) * 10

RECURSIVE localFallbackEntries(_, _, _, _)
localFallbackEntries(queryTitle, queryDescription, queryCategory, candidateList) ==
    IF candidateList = <<>> THEN <<>>
    ELSE LET c == Head(candidateList)
             score == localFallbackScore(queryTitle, queryDescription, c)
             rest == localFallbackEntries(queryTitle, queryDescription, queryCategory,
                                          Tail(candidateList))
         IN IF /\ queryCategory # "Other" /\ c.category # "Other"
               /\ queryCategory # c.category
            THEN rest
            ELSE IF score > 25
                 THEN <<[report |-> c,
                         confidence |-> MathMin(Whole(score), Whole(75)),
                         isOffline |-> TRUE]>> \o rest
                 ELSE rest

\* performLocalFallbackMatch: the entries sorted by confidence, at most 10
performLocalFallbackMatch(queryTitle, queryDescription, queryCategory, candidateList) ==
    LET sorted == sortDescending(localFallbackEntries(queryTitle, queryDescription,
                                                      queryCategory, candidateList))
    IN IF Len(sorted) > CandidateCap THEN SubSeq(sorted, 1, CandidateCap) ELSE sorted

(***************************************************************************)
(* findSmartMatches of the cascade client (unnamed/part_004:597-685).      *)
(***************************************************************************)
\* line 600: BUFFER_MS, in days
BufferDays == 90

\* line 614: candidates.slice(0, 12)
RequestCap == 12

\* parseDateVal (lines 467-474), in days: the dates of the reports are "d1",
\* the day after it "d2", and "d3" 200 days later.
parseDateVal(dateStr) ==
    IF dateStr = "d1" THEN 0 ELSE IF dateStr = "d2" THEN 1 ELSE 200

Abs(n) == IF n < 0 THEN 0 - n ELSE n

\* lines 604-609
filterCandidatesCascade(sourceItem, allReports) ==
    FilterSeq(allReports,
              {r \in Range(allReports) :
                   /\ r.status = "OPEN"
                   /\ r.type = targetType(sourceItem)
                   /\ r.id # sourceItem.id
                   /\ Abs(parseDateVal(r.date) - parseDateVal(sourceItem.date))
                          <= BufferDays})

\* line 614
sliceRequest(candidates) ==
    IF Len(candidates) > RequestCap THEN SubSeq(candidates, 1, RequestCap)
    ELSE candidates

\* lines 678-681: each entry resolved to the first candidate with its id
RECURSIVE resolveMatchesCascade(_, _)
resolveMatchesCascade(matchResults, candidates) ==
    IF matchResults = <<>> THEN <<>>
    ELSE LET m == Head(matchResults)
             found == FilterSeq(candidates, {c \in Range(candidates) : c.id = m.id})
         IN (IF found # <<>>
             THEN <<[report |-> Head(found), confidence |-> m.confidence]>>
             ELSE <<>>)
            \o resolveMatchesCascade(Tail(matchResults), candidates)

\* line 684: the comparator subtracts the confidences as numbers
RECURSIVE insertByNumber(_, _)
insertByNumber(sorted, e) ==
    IF sorted = <<>> THEN <<e>>
    ELSE IF NumLess(ToNumber(Head(sorted).confidence), ToNumber(e.confidence))
         THEN <<e>> \o sorted
         ELSE <<Head(sorted)>> \o insertByNumber(Tail(sorted), e)

RECURSIVE sortByNumber(_)
sortByNumber(results) ==
    IF results = <<>> THEN <<>>
    ELSE insertByNumber(sortByNumber(SubSeq(results, 1, Len(results) - 1)),
                        results[Len(results)])

sortOutcomesCascade(results) ==
    IF \E i \in DOMAIN results : ToNumber(results[i].confidence).t # "num"
    THEN Orderings(results)
    ELSE {sortByNumber(results)}

\* The entries of performLocalFallbackMatch as {id, confidence} objects.
RECURSIVE asMatchEntries(_)
asMatchEntries(entries) ==
    IF entries = <<>> THEN <<>>
    ELSE <<MatchEntry(Head(entries).report.id, Head(entries).confidence)>>
         \o asMatchEntries(Tail(entries))

\* lines 660-684: the results the call can complete with once runCascade
\* has resolved with text (null when the cascade failed).  A parse error
\* and data = null are caught and leave matchResults empty; outside the
\* try, matchResults.map and m.id are evaluated unguarded.
findSmartMatchesCascadeAfter(sourceItem, candidates, text) ==
    LET parsed == ~Falsy(text) /\ ~ParseThrows(text) /\ ParseValue(text).t # "null"
        given == IF parsed THEN ParseValue(text).matches ELSE NoMatches
        isArray == given.t \in {"undef", "falsy", "arr"}
        matchResults ==
            IF given.items = <<>>
            THEN asMatchEntries(performLocalFallbackMatch(sourceItem.title,
                     sourceItem.description, sourceItem.category, candidates))
            ELSE given.items
    IN IF ~isArray THEN {FindThrow}
       ELSE IF \E i \in DOMAIN matchResults : matchResults[i].t = "null" THEN {FindThrow}
       ELSE {FindReturn(IF given.items = <<>> THEN "local" ELSE "ai", sorted) :
                 sorted \in sortOutcomesCascade(resolveMatchesCascade(matchResults,
                                                                      candidates))}

(***************************************************************************)
(* The exported operations as a state machine: a call runs to its request  *)
(* to the provider (or returns before it), and completes when callPuterAI  *)
(* resolves.                                                               *)
(***************************************************************************)
Report(id, type, status, category, title, description, tags, date, reporterId) ==
    [id |-> id, type |-> type, status |-> status, category |-> category,
     title |-> title, description |-> description, tags |-> tags, date |-> date,
     reporterId |-> reporterId]

R1 == Report("r1", "LOST", "OPEN", "Electronics", S_BlackIPhone13, S_LostNearLibrary,
             <<S_Apple, S_Phone>>, "d1", "u1")
R2 == Report("r2", "FOUND", "OPEN", "Electronics", S_IPhoneFound, S_Empty,
             <<S_Phone>>, "d1", "u2")
R3 == Report("r3", "FOUND", "OPEN", "Accessories", S_BlackIPhoneCase, S_Empty,
             <<>>, "d2", "u3")
R4 == Report("r4", "FOUND", "OPEN", "Electronics", S_BlackIPhone13, S_LostNearLibrary,
             <<S_Apple>>, "d2", "u1")
R5 == Report("r5", "FOUND", "RESOLVED", "Electronics", S_BlackIphone13Bang,
             S_LostNearTheLibrary, <<>>, "d1", "u2")
R6 == Report("r6", "LOST", "OPEN", "Other", S_TV, S_Empty, <<>>, "d1", "u2")
R7 == Report("r7", "FOUND", "OPEN", "Other", S_TV, S_Empty, <<>>, "d2", "u3")
R8 == Report("r8", "FOUND", "OPEN", "Other", S_BlackIPhone13, S_Empty, <<>>, "d2", "u3")

\* The reports of the collection, newest first, and the lists drawn from it.
ReportPool == <<R1, R2, R3, R4, R5>>
ReportLists == {FilterSeq(ReportPool, S) : S \in SUBSET Range(ReportPool)}
CompareItemsPool == {R1, R2, R3, R4, R5, R6, R7}

\* The source items of findSmartMatches: the reports of the collection and
\* a report of the category Other.
FindSources == Range(ReportPool) \cup {R6}

\* Reports of one day, more of them than a request takes, and a report
\* made 200 days later.
BigIds == <<"b01", "b02", "b03", "b04", "b05", "b06", "b07", "b08", "b09", "b10",
            "b11", "b12", "b13">>
BigList ==
    [i \in DOMAIN BigIds |->
        Report(BigIds[i], "FOUND", "OPEN", "Electronics", S_IPhoneFound, S_Empty,
               <<S_Phone>>, "d1", "u2")]
BigLists == {SubSeq(BigList, 1, n) : n \in 10..Len(BigList)}
R10 == Report("r10", "FOUND", "OPEN", "Electronics", S_IPhoneFound, S_Empty,
              <<S_Phone>>, "d3", "u3")
FindLists == ReportLists \cup BigLists \cup {<<R1, R2, R10>>}

\* The candidate lists handed to performLocalFallbackMatch.
FallbackPool == <<R2, R3, R4, R7, R8>>
FallbackLists == {FilterSeq(FallbackPool, S) : S \in SUBSET Range(FallbackPool)}

\* The answers of the provider.
TextsBasic == {EmptyText, UnparsableText, JsonText(ParsedNull), JsonText(ParsedScalar)}

CompareTexts ==
    TextsBasic \cup {JsonText(ParsedObject(c, NoMatches)) : c \in ConfidenceValues}

EntryIds == {"r2", "r3", "r4", "r9", "b01", "b11", "b13"}
EntryConfidences == {Whole(90), Whole(40), Str(S_85), Undefined}
SingleEntries ==
    {MatchEntry(i, c) : i \in EntryIds, c \in EntryConfidences} \cup {NullEntry}
PairEntries ==
    {MatchEntry(i, c) : i \in {"r2", "r4"}, c \in {Whole(90), Whole(40), Undefined}}
MatchesValues ==
    {NoMatches, FalsyMatches, NonArrayMatches, MatchArray(<<>>)}
    \cup {MatchArray(<<e>>) : e \in SingleEntries}
    \cup {MatchArray(<<e1, e2>>) : e1 \in PairEntries, e2 \in PairEntries}

FindTexts ==
    TextsBasic \cup {JsonText(ParsedObject(Undefined, m)) : m \in MatchesValues}

ExtractTexts == TextsBasic \cup {JsonText(ParsedObject(Undefined, NoMatches))}

ProviderOutcomes(texts) ==
    {ProviderOutcome(shape, EmptyText, FALSE) :
         shape \in {"noputer", "throw", "object", "null", "undefined"}}
    \cup {ProviderOutcome("throw", EmptyText, TRUE)}
    \cup {ProviderOutcome("string", t, FALSE) : t \in texts}
    \cup {ProviderOutcome(shape, t, r) :
              shape \in {"message", "text"},
              t \in TextsBasic \cup {JsonText(ParsedObject(Undefined, NoMatches))},
              r \in BOOLEAN}

NoOutcome == ProviderOutcome("none", EmptyText, FALSE)
Pending == [k |-> "none", src |-> "none"]

Callable == orch.pc = "idle"

OrchCall(op, item1, item2, allReports, candidates) ==
    [pc |-> "await", op |-> op, item1 |-> item1, item2 |-> item2,
     allReports |-> allReports, candidates |-> candidates,
     aiCandidates |-> candidates, out |-> NoOutcome, aiRequests |-> 0, result |-> Pending]

OrchDone(call, out, result) ==
    [call EXCEPT !.pc = "done", !.out = out,
                 !.aiRequests = RequestsIssued(out), !.result = result]

\* compareItems(item1, item2) up to its request: lines 415-426
CompareInvoke(item1, item2) ==
    /\ Callable
    /\ LET call == OrchCall("compareItems", item1, item2, <<>>, <<>>)
       IN orch' = IF preCheck(item1, item2)
                  THEN [call EXCEPT !.pc = "done", !.result = PinnedResult]
                  ELSE call
    /\ UNCHANGED <<cascadeVars, heur, norm, uiVars>>

\* ... and from the resolution of callPuterAI: lines 464-500
CompareRespond(out) ==
    /\ orch.pc = "await" /\ orch.op = "compareItems"
    /\ orch' = OrchDone(orch, out, compareItemsAfterAI(orch.item1, orch.item2, out))
    /\ UNCHANGED <<cascadeVars, heur, norm, uiVars>>

\* findSmartMatches(sourceItem, allReports) up to its request: lines 163-207
FindInvoke(sourceItem, allReports) ==
    /\ Callable
    /\ LET candidates == filterCandidates(sourceItem, allReports)
           call == OrchCall("findSmartMatches", sourceItem, sourceItem, allReports,
                            narrowCandidates(sourceItem, candidates))
       IN orch' = IF candidates = <<>>
                  THEN [call EXCEPT !.pc = "done", !.result = FindReturn("none", <<>>)]
                  ELSE call
    /\ UNCHANGED <<cascadeVars, heur, norm, uiVars>>

\* ... and from the resolution of callPuterAI: lines 209-238
FindRespond(out) ==
    /\ orch.pc = "await" /\ orch.op = "findSmartMatches"
    /\ \E result \in findSmartMatchesAfterAI(orch.item1, orch.candidates, out) :
           orch' = OrchDone(orch, out, result)
    /\ UNCHANGED <<cascadeVars, heur, norm, uiVars>>

\* extractVisualDetails(base64Image): lines 294-306 ...
ExtractInvoke ==
    /\ Callable
    /\ orch' = OrchCall("extractVisualDetails", R1, R1, <<>>, <<>>)
    /\ UNCHANGED <<cascadeVars, heur, norm, uiVars>>

\* ... and lines 308-325
ExtractRespond(out) ==
    /\ orch.pc = "await" /\ orch.op = "extractVisualDetails"
    /\ orch' = OrchDone(orch, out, extractVisualDetailsAfterAI(out))
    /\ UNCHANGED <<cascadeVars, heur, norm, uiVars>>

\* performLocalFallbackMatch(sourceItem.title, sourceItem.description,
\* sourceItem.category, candidateList), as findSmartMatches of the cascade
\* client calls it when the cascade gave no match (part_004:671-674)
LocalFallback(sourceItem, candidateList) ==
    /\ Callable
    /\ orch' = [OrchCall("performLocalFallbackMatch", sourceItem, sourceItem,
                         candidateList, candidateList)
                EXCEPT !.pc = "done",
                       !.result = FindReturn("local",
                                      performLocalFallbackMatch(sourceItem.title,
                                          sourceItem.description, sourceItem.category,
                                          candidateList))]
    /\ UNCHANGED <<cascadeVars, heur, norm, uiVars>>

\* findSmartMatches of the cascade client up to runCascade: lines 599-659.
\* With no candidate no request is made and the call completes at once.
CascadeFindInvoke(sourceItem, allReports) ==
    /\ Callable
    /\ LET candidates == filterCandidatesCascade(sourceItem, allReports)
           call == [OrchCall("findSmartMatchesCascade", sourceItem, sourceItem,
                             allReports, candidates)
                    EXCEPT !.aiCandidates = sliceRequest(candidates)]
       IN orch' = IF candidates = <<>>
                  THEN [call EXCEPT !.pc = "done", !.result = FindReturn("local", <<>>)]
                  ELSE call
    /\ UNCHANGED <<cascadeVars, heur, norm, uiVars>>

\* ... and from the resolution of runCascade: lines 660-684
CascadeFindRespond(text) ==
    /\ orch.pc = "await" /\ orch.op = "findSmartMatchesCascade"
    /\ \E result \in findSmartMatchesCascadeAfter(orch.item1, orch.candidates, text) :
           orch' = [orch EXCEPT !.pc = "done",
                                !.out = ProviderOutcome("cascade", text, FALSE),
                                !.result = result]
    /\ UNCHANGED <<cascadeVars, heur, norm, uiVars>>

\* The caller takes the result (or the error); the operation keeps no state.
OrchReturn ==
    /\ orch.pc = "done"
    /\ orch' = IdleOrch
    /\ UNCHANGED <<cascadeVars, heur, norm, uiVars>>

InitOrch ==
    /\ orch = IdleOrch
    /\ IdleUI
    /\ apiKey = TRUE /\ sessionBans = {} /\ calls = <<>>
    /\ heur = IdleHeur /\ norm = IdleNorm

NextOrch ==
    \/ \E item1 \in CompareItemsPool, item2 \in CompareItemsPool : CompareInvoke(item1, item2)
    \/ \E out \in ProviderOutcomes(CompareTexts) : CompareRespond(out)
    \/ \E sourceItem \in FindSources, allReports \in FindLists :
           FindInvoke(sourceItem, allReports)
    \/ \E out \in ProviderOutcomes(FindTexts) : FindRespond(out)
    \/ \E sourceItem \in {R1, R3}, allReports \in FindLists :
           CascadeFindInvoke(sourceItem, allReports)
    \/ \E text \in FindTexts \cup {NullText} : CascadeFindRespond(text)
    \/ ExtractInvoke
    \/ \E out \in ProviderOutcomes(ExtractTexts) : ExtractRespond(out)
    \/ \E sourceItem \in {R1, R6}, candidateList \in FallbackLists :
           LocalFallback(sourceItem, candidateList)
    \/ OrchReturn

SpecOrch == InitOrch /\ [][NextOrch]_vars

(***************************************************************************)
(* Chat messages and their merge: ChatView's allMessages                   *)
(* (unnamed/part_000:75-84).  A message without an id has id "".           *)
(***************************************************************************)
ChatUsers == {"U1", "U2"}

Message(id, senderId, timestamp, status, text) ==
    [id |-> id, senderId |-> senderId, timestamp |-> timestamp, status |-> status,
     text |-> text]

\* m.id || m.timestamp: the id is a string, the timestamp a number, so an id
\* never equals a timestamp
messageKey(m) ==
    IF m.id # "" THEN [by |-> "id", id |-> m.id, timestamp |-> 0]
    ELSE [by |-> "timestamp", id |-> "", timestamp |-> m.timestamp]

\* Map.prototype.set: a present key keeps its place and takes the new value
mapSet(entries, m) ==
    IF \E i \in DOMAIN entries : messageKey(entries[i]) = messageKey(m)
    THEN [i \in DOMAIN entries |->
              IF messageKey(entries[i]) = messageKey(m) THEN m ELSE entries[i]]
    ELSE Append(entries, m)

RECURSIVE mapSetAll(_, _)
mapSetAll(entries, msgs) ==
    IF msgs = <<>> THEN entries
    ELSE mapSetAll(mapSet(entries, Head(msgs)), Tail(msgs))

\* combined.sort((a, b) => a.timestamp - b.timestamp): stable
RECURSIVE insertByTimestamp(_, _)
insertByTimestamp(sorted, m) ==
    IF sorted = <<>> THEN <<m>>
    ELSE IF m.timestamp < Head(sorted).timestamp THEN <<m>> \o sorted
         ELSE <<Head(sorted)>> \o insertByTimestamp(Tail(sorted), m)

RECURSIVE sortByTimestamp(_)
sortByTimestamp(msgs) ==
    IF msgs = <<>> THEN <<>>
    ELSE insertByTimestamp(sortByTimestamp(SubSeq(msgs, 1, Len(msgs) - 1)),
                           msgs[Len(msgs)])

allMessages_LegacyLast(legacyMessages, subcollectionMessages) ==
    sortByTimestamp(mapSetAll(mapSetAll(<<>>, subcollectionMessages), legacyMessages))

allMessages(legacyMessages, subcollectionMessages) ==
    sortByTimestamp(mapSetAll(mapSetAll(<<>>, legacyMessages), subcollectionMessages))

\* The message lists of the checked merges: legacy messages with or without
\* an id, subcollection documents with distinct document ids.
MaxListLen == 2
MaxTime == 2

SeqsUpTo(S, n) == UNION {[1..k -> S] : k \in 0..n}

LegacyMessages ==
    {Message(id, "U1", t, "sent", "legacy") : id \in {"", "a", "b"}, t \in 1..MaxTime}
SubcollectionMessages ==
    {Message(id, "U1", t, st, "live") :
         id \in {"a", "b"}, t \in 1..MaxTime, st \in {"sent", "read"}}
SubcollectionLists ==
    {l \in SeqsUpTo(SubcollectionMessages, MaxListLen) :
         \A i, j \in DOMAIN l : i # j => l[i].id # l[j].id}

InitMerge ==
    /\ merge \in [pc : {"input"}, legacy : SeqsUpTo(LegacyMessages, MaxListLen),
                  live : SubcollectionLists, merged : {<<>>}]
    /\ chat = IdleChat /\ scan = IdleScan
    /\ apiKey = TRUE /\ sessionBans = {} /\ calls = <<>>
    /\ heur = IdleHeur /\ norm = IdleNorm /\ orch = IdleOrch /\ json = IdleJson /\ IdleAux

\* The memo recomputes allMessages from the two lists.
Merge ==
    /\ merge.pc = "input"
    /\ merge' = [merge EXCEPT !.pc = "merged",
                              !.merged = allMessages(merge.legacy, merge.live)]
    /\ UNCHANGED <<cascadeVars, heur, norm, orch, chat, scan, json, auxVars>>

NextMerge == Merge

SpecMerge == InitMerge /\ [][NextMerge]_vars

(***************************************************************************)
(* Chat synchronisation: one direct chat, its documents in the store and   *)
(* the ChatView of each participant (unnamed/part_000).                    *)
(*                                                                         *)
(* store: the chat document (legacy messages, summary, block state) and    *)
(* the messages subcollection.  client[u]: whether u has the chat open,    *)
(* the snapshots its listeners delivered last (view), the send in progress *)
(* (from the upload of an attachment on) and the batches committed but not *)
(* yet acknowledged.  A client's snapshots show its own pending writes.    *)
(***************************************************************************)
MaxSends == 1
MaxInflight == 1

NoUser == "none"
OtherUser(u) == CHOOSE v \in ChatUsers : v # u

Summary(unreadCount, lastSenderId, lastMessage, lastMessageTime) ==
    [unreadCount |-> unreadCount, lastSenderId |-> lastSenderId,
     lastMessage |-> lastMessage, lastMessageTime |-> lastMessageTime]

\* part_000:38-40
isBlocked(view) == view.isBlocked
iBlockedThem(view, u) == view.blockedBy = u
theyBlockedMe(view, u) == isBlocked(view) /\ ~iBlockedThem(view, u)

unreadDocs_AnySender(view, u) ==
    {view.sub[i].id : i \in {j \in DOMAIN view.sub : view.sub[j].status # "read"}}

\* lines 91, 108: what the mark-as-read effect finds in the client's view
unreadDocs(view, u) ==
    {view.sub[i].id : i \in {j \in DOMAIN view.sub :
                                 view.sub[j].senderId # u /\ view.sub[j].status # "read"}}

needsReset_WithUnreadDocs(view, u) ==
    /\ view.summary.unreadCount > 0 /\ view.summary.lastSenderId # u
    /\ unreadDocs(view, u) # {}

needsReset_AnySender(view, u) == view.summary.unreadCount > 0

needsReset(view, u) == view.summary.unreadCount > 0 /\ view.summary.lastSenderId # u

Batch(ids, reset) == [ids |-> ids, reset |-> reset]

\* A batch that resets the count and leaves the messages as they are.
applyBatch_CountOnly(docs, b) ==
    [docs EXCEPT !.summary.unreadCount = IF b.reset THEN 0 ELSE @]

\* A committed batch applied to the documents: lines 96-99 and 110.
applyBatch(docs, b) ==
    [docs EXCEPT
         !.sub = [i \in DOMAIN docs.sub |->
                      IF docs.sub[i].id \in b.ids
                      THEN [docs.sub[i] EXCEPT !.status = "read"]
                      ELSE docs.sub[i]],
         !.summary.unreadCount = IF b.reset THEN 0 ELSE @]

RECURSIVE applyBatches(_, _)
applyBatches(docs, queue) ==
    IF queue = <<>> THEN docs ELSE applyBatches(applyBatch(docs, Head(queue)), Tail(queue))

\* What the listeners of a client deliver: the documents with the client's
\* pending writes applied.
Documents(c) == [sub |-> c.store.sub, summary |-> c.store.summary]
Snapshot(c, u) == applyBatches(Documents(c), c.client[u].queue)

IdleSend == [pc |-> "idle", attachment |-> FALSE, timestamp |-> 0]

ClosedClient(c0) ==
    [open |-> FALSE,
     view |-> [sub |-> <<>>, summary |-> c0.summary,
               isBlocked |-> c0.isBlocked, blockedBy |-> c0.blockedBy],
     send |-> IdleSend, queue |-> <<>>]

NoAlert(c, u) == c.client[u].send.pc # "alert"

\* The messages sent or being sent.
MessagesStarted(c) ==
    Len(c.store.sub)
    + Cardinality({u \in ChatUsers : c.client[u].send.pc \in {"uploading", "adding"}})

\* onSelectChat(id): the messages listener is attached, the list cleared
\* (lines 46-70)
OpenChat(u) ==
    /\ chat.pc = "run" /\ ~chat.client[u].open /\ NoAlert(chat, u)
    /\ chat' = [chat EXCEPT !.client[u].open = TRUE, !.client[u].view.sub = <<>>]
    /\ UNCHANGED <<cascadeVars, heur, norm, orch, merge, scan, json, auxVars>>

\* onSelectChat(null) / onBack: the listener is detached (lines 47-50, 68)
CloseChat(u) ==
    /\ chat.pc = "run" /\ chat.client[u].open /\ NoAlert(chat, u)
    /\ chat' = [chat EXCEPT !.client[u].open = FALSE, !.client[u].view.sub = <<>>]
    /\ UNCHANGED <<cascadeVars, heur, norm, orch, merge, scan, json, auxVars>>

\* onSnapshot of the messages subcollection (lines 59-65)
SnapshotMessages(u) ==
    /\ chat.pc = "run" /\ chat.client[u].open /\ NoAlert(chat, u)
    /\ chat.client[u].view.sub # Snapshot(chat, u).sub
    /\ chat' = [chat EXCEPT !.client[u].view.sub = Snapshot(chat, u).sub]
    /\ UNCHANGED <<cascadeVars, heur, norm, orch, merge, scan, json, auxVars>>

\* The chats prop: the chat document as the parent's listener delivers it
\* (line 35)
SnapshotChat(u) ==
    /\ chat.pc = "run" /\ NoAlert(chat, u)
    /\ LET view == [chat.client[u].view EXCEPT
                        !.summary = Snapshot(chat, u).summary,
                        !.isBlocked = chat.store.isBlocked,
                        !.blockedBy = chat.store.blockedBy]
       IN /\ view # chat.client[u].view
          /\ chat' = [chat EXCEPT !.client[u].view = view]
    /\ UNCHANGED <<cascadeVars, heur, norm, orch, merge, scan, json, auxVars>>

\* The mark-as-read effect (lines 87-118): it runs when the view it depends
\* on has changed, and commits one batch when the view holds unread
\* messages of the other participant or a count to reset.
MarkAsRead(u) ==
    /\ chat.pc = "run" /\ chat.client[u].open /\ NoAlert(chat, u)
    /\ Len(chat.client[u].queue) < MaxInflight
    /\ LET view == chat.client[u].view
           b == Batch(unreadDocs(view, u), needsReset(view, u))
           seen == applyBatch([sub |-> view.sub, summary |-> view.summary], b)
       IN /\ b.ids # {} \/ b.reset
          /\ chat' = [chat EXCEPT !.client[u].queue = Append(@, b),
                                  !.client[u].view.sub = seen.sub,
                                  !.client[u].view.summary = seen.summary]
    /\ UNCHANGED <<cascadeVars, heur, norm, orch, merge, scan, json, auxVars>>

\* batch.commit() resolves: the batch is applied atomically
CommitOk(u) ==
    /\ chat.pc = "run" /\ chat.client[u].queue # <<>>
    /\ LET docs == applyBatch(Documents(chat), Head(chat.client[u].queue))
       IN chat' = [chat EXCEPT !.store.sub = docs.sub,
                               !.store.summary = docs.summary,
                               !.client[u].queue = Tail(@)]
    /\ UNCHANGED <<cascadeVars, heur, norm, orch, merge, scan, json, auxVars>>

\* batch.commit() rejects: logged (line 115), nothing is written
CommitFail(u) ==
    /\ chat.pc = "run" /\ chat.client[u].queue # <<>>
    /\ chat' = [chat EXCEPT !.client[u].queue = Tail(@)]
    /\ UNCHANGED <<cascadeVars, heur, norm, orch, merge, scan, json, auxVars>>

\* The textarea (lines 557, 570-577): rendered unless theyBlockedMe, and
\* disabled while iBlockedThem
CanType(c, u) ==
    /\ c.client[u].open /\ NoAlert(c, u)
    /\ ~theyBlockedMe(c.client[u].view, u)
    /\ ~iBlockedThem(c.client[u].view, u)

\* A text is typed (handleTyping) and submitted with Enter in the textarea
\* or with the send button, which is rendered unless iBlockedThem (lines
\* 572, 581-597); handleSendMessage returns at line 172 when theyBlockedMe.
CanSendText(c, u) ==
    /\ CanType(c, u)
    /\ ~theyBlockedMe(c.client[u].view, u)

\* handleSendMessage up to messagesRef.add (lines 170-190)
SendText(u) ==
    /\ chat.pc = "run" /\ CanSendText(chat, u)
    /\ chat.client[u].send.pc = "idle" /\ MessagesStarted(chat) < MaxSends
    /\ chat' = [chat EXCEPT
                   !.client[u].send = [pc |-> "adding", attachment |-> FALSE,
                                       timestamp |-> MessagesStarted(chat) + 1]]
    /\ UNCHANGED <<cascadeVars, heur, norm, orch, merge, scan, json, auxVars>>

\* The paperclip and handleFileUpload up to uploadImage (lines 210-213)
CanAttach(c, u) ==
    /\ c.client[u].open /\ NoAlert(c, u)
    /\ ~theyBlockedMe(c.client[u].view, u)

StartUpload(u) ==
    /\ chat.pc = "run" /\ CanAttach(chat, u)
    /\ chat.client[u].send.pc = "idle" /\ MessagesStarted(chat) < MaxSends
    /\ chat' = [chat EXCEPT
                   !.client[u].send = [pc |-> "uploading", attachment |-> TRUE,
                                       timestamp |-> 0]]
    /\ UNCHANGED <<cascadeVars, heur, norm, orch, merge, scan, json, auxVars>>

\* uploadImage resolves and handleFileUpload calls the handleSendMessage of
\* the render it was created in (lines 214-218): its theyBlockedMe and
\* activeChatId are those that let the upload start
UploadOk(u) ==
    /\ chat.pc = "run" /\ chat.client[u].send.pc = "uploading"
    /\ chat' = [chat EXCEPT
                   !.client[u].send = [pc |-> "adding", attachment |-> TRUE,
                                       timestamp |-> MessagesStarted(chat)]]
    /\ UNCHANGED <<cascadeVars, heur, norm, orch, merge, scan, json, auxVars>>

\* uploadImage rejects: alert (lines 219-222)
UploadFail(u) ==
    /\ chat.pc = "run" /\ chat.client[u].send.pc = "uploading"
    /\ chat' = [chat EXCEPT !.client[u].send.pc = "alert"]
    /\ UNCHANGED <<cascadeVars, heur, norm, orch, merge, scan, json, auxVars>>

\* messagesRef.add resolves: the message document exists (lines 177-190)
AddOk(u) ==
    /\ chat.pc = "run" /\ chat.client[u].send.pc = "adding"
    /\ chat' = [chat EXCEPT
                   !.store.sub = Append(@, [id |-> Len(@) + 1, senderId |-> u,
                                            timestamp |-> chat.client[u].send.timestamp,
                                            status |-> "sent",
                                            attachment |-> chat.client[u].send.attachment]),
                   !.client[u].send.pc = "updating"]
    /\ UNCHANGED <<cascadeVars, heur, norm, orch, merge, scan, json, auxVars>>

\* messagesRef.add rejects: the catch block alerts (lines 203-206)
AddFail(u) ==
    /\ chat.pc = "run" /\ chat.client[u].send.pc = "adding"
    /\ chat' = [chat EXCEPT !.client[u].send.pc = "alert"]
    /\ UNCHANGED <<cascadeVars, heur, norm, orch, merge, scan, json, auxVars>>

\* chatRef.update resolves (lines 192-199)
UpdateOk(u) ==
    /\ chat.pc = "run" /\ chat.client[u].send.pc = "updating"
    /\ chat' = [chat EXCEPT
                   !.store.summary =
                       Summary(@.unreadCount + 1, u,
                               IF chat.client[u].send.attachment THEN "Sent a photo"
                               ELSE "text",
                               chat.client[u].send.timestamp),
                   !.client[u].send = IdleSend]
    /\ UNCHANGED <<cascadeVars, heur, norm, orch, merge, scan, json, auxVars>>

UpdateFail_Silent(u) ==
    /\ chat.pc = "run" /\ chat.client[u].send.pc = "updating"
    /\ chat' = [chat EXCEPT !.client[u].send = IdleSend]
    /\ UNCHANGED <<cascadeVars, heur, norm, orch, merge, scan, json, auxVars>>

\* chatRef.update rejects: the catch block alerts (lines 203-206)
UpdateFail(u) ==
    /\ chat.pc = "run" /\ chat.client[u].send.pc = "updating"
    /\ chat' = [chat EXCEPT !.client[u].send.pc = "alert"]
    /\ UNCHANGED <<cascadeVars, heur, norm, orch, merge, scan, json, auxVars>>

\* The sender closes the alert.
Dismiss(u) ==
    /\ chat.pc = "run" /\ chat.client[u].send.pc = "alert"
    /\ chat' = [chat EXCEPT !.client[u].send = IdleSend]
    /\ UNCHANGED <<cascadeVars, heur, norm, orch, merge, scan, json, auxVars>>

\* onBlockChat(selectedChat.id) from the header or the Unblock button
\* (lines 415-425, 581-588).  The handler is passed in by the parent; as the
\* specification describes it, it blocks an unblocked chat in the name of
\* the user and lets the blocking user unblock.
CanUnblock(c, u) ==
    /\ c.client[u].open /\ NoAlert(c, u)
    /\ isBlocked(c.client[u].view) /\ iBlockedThem(c.client[u].view, u)

Block(u) ==
    /\ chat.pc = "run" /\ chat.client[u].open /\ NoAlert(chat, u)
    /\ ~isBlocked(chat.client[u].view)
    /\ chat' = [chat EXCEPT !.store.isBlocked = TRUE, !.store.blockedBy = u]
    /\ UNCHANGED <<cascadeVars, heur, norm, orch, merge, scan, json, auxVars>>

Unblock(u) ==
    /\ chat.pc = "run" /\ CanUnblock(chat, u)
    /\ chat' = [chat EXCEPT !.store.isBlocked = FALSE, !.store.blockedBy = NoUser]
    /\ UNCHANGED <<cascadeVars, heur, norm, orch, merge, scan, json, auxVars>>

\* The chat when the session starts: possibly with a legacy message of U1
\* that U2 has not read.
LegacyMessage == [id |-> 0, senderId |-> "U1", timestamp |-> 0, status |-> "sent",
                  attachment |-> FALSE]

InitialStores ==
    {[legacy |-> <<>>, sub |-> <<>>, summary |-> Summary(0, NoUser, "", 0),
      isBlocked |-> FALSE, blockedBy |-> NoUser],
     [legacy |-> <<LegacyMessage>>, sub |-> <<>>, summary |-> Summary(1, "U1", "text", 0),
      isBlocked |-> FALSE, blockedBy |-> NoUser]}

InitChat ==
    /\ \E c0 \in InitialStores :
           chat = [pc |-> "run", store |-> c0,
                   client |-> [u \in ChatUsers |-> ClosedClient(c0)]]
    /\ merge = IdleMerge /\ scan = IdleScan
    /\ apiKey = TRUE /\ sessionBans = {} /\ calls = <<>>
    /\ heur = IdleHeur /\ norm = IdleNorm /\ orch = IdleOrch /\ json = IdleJson /\ IdleAux

\* Sending and reading
NextChat ==
    \/ \E u \in ChatUsers : OpenChat(u)
    \/ \E u \in ChatUsers : CloseChat(u)
    \/ \E u \in ChatUsers : SnapshotMessages(u)
    \/ \E u \in ChatUsers : SnapshotChat(u)
    \/ \E u \in ChatUsers : MarkAsRead(u)
    \/ \E u \in ChatUsers : CommitOk(u)
    \/ \E u \in ChatUsers : CommitFail(u)
    \/ \E u \in ChatUsers : SendText(u)
    \/ \E u \in ChatUsers : AddOk(u)
    \/ \E u \in ChatUsers : AddFail(u)
    \/ \E u \in ChatUsers : UpdateOk(u)
    \/ \E u \in ChatUsers : UpdateFail(u)
    \/ \E u \in ChatUsers : Dismiss(u)

SpecChat == InitChat /\ [][NextChat]_vars

\* The listeners deliver, the effect runs after the render it belongs to,
\* and a write that is tried again and again is accepted at some time.
FairChat ==
    \A u \in ChatUsers :
        /\ WF_vars(SnapshotMessages(u))
        /\ WF_vars(SnapshotChat(u))
        /\ WF_vars(MarkAsRead(u))
        /\ SF_vars(CommitOk(u))

SpecChatFair == InitChat /\ [][NextChat]_vars /\ FairChat

\* Sending and blocking
NextBlock ==
    \/ \E u \in ChatUsers : OpenChat(u)
    \/ \E u \in ChatUsers : CloseChat(u)
    \/ \E u \in ChatUsers : SnapshotMessages(u)
    \/ \E u \in ChatUsers : SnapshotChat(u)
    \/ \E u \in ChatUsers : SendText(u)
    \/ \E u \in ChatUsers : StartUpload(u)
    \/ \E u \in ChatUsers : UploadOk(u)
    \/ \E u \in ChatUsers : UploadFail(u)
    \/ \E u \in ChatUsers : AddOk(u)
    \/ \E u \in ChatUsers : AddFail(u)
    \/ \E u \in ChatUsers : UpdateOk(u)
    \/ \E u \in ChatUsers : UpdateFail(u)
    \/ \E u \in ChatUsers : Dismiss(u)
    \/ \E u \in ChatUsers : Block(u)
    \/ \E u \in ChatUsers : Unblock(u)

SpecBlock == InitChat /\ [][NextBlock]_vars

(***************************************************************************)
(* The match scan of the dashboard (components/Dashboard.tsx:106-177).     *)
(* One scan runs at a time; localStorage holds the signature and the match *)
(* map of the last completed scan, or whatever else was written there.     *)
(***************************************************************************)
MaxScans == 2
ScanUser == "u1"

\* The reports prop, newest first.
ScanPool == <<R1, R2, R4, R6>>
ScanLists == {FilterSeq(ScanPool, S) : S \in SUBSET Range(ScanPool)}

\* line 108
myOpenReports(reports) ==
    FilterSeq(reports, {r \in Range(reports) : r.reporterId = ScanUser /\ r.status = "OPEN"})

\* lines 121-122: `${reports.length}-${newestReportId}-${myOpenReports.length}`
currentSignature(reports) ==
    <<Len(reports), IF Len(reports) > 0 THEN reports[1].id ELSE "none",
      Len(myOpenReports(reports))>>

\* What localStorage.getItem returns: null, or the string stored.
NoSignature == [k |-> "null", v |-> <<>>]
StoredSignature(sig) == [k |-> "string", v |-> sig]
NoEntry == [k |-> "null", v |-> {}]
EmptyEntry == [k |-> "empty", v |-> {}]
CorruptEntry == [k |-> "unparsable", v |-> {}]
NullEntryText == [k |-> "jsonnull", v |-> {}]

\* JSON.stringify of a match map (line 167), and JSON.parse (line 130)
stringifyMatches(m) == [k |-> "map", v |-> m]
MatchMap(m) == [t |-> "map", m |-> m]
NullValue == [t |-> "null", m |-> {}]
storedTruthy(entry) == entry.k \notin {"null", "empty"}
storedParseThrows(entry) == entry.k \in {"empty", "unparsable"}
storedParse(entry) == IF entry.k = "map" THEN MatchMap(entry.v) ELSE NullValue

CacheHit(value) == [k |-> "hit", value |-> value]
CacheMiss == [k |-> "miss", value |-> NullValue]
CacheThrow == [k |-> "throw", value |-> NullValue]

cacheCheck_Uncaught(signature, cachedSignature, cachedMatches) ==
    IF cachedSignature = StoredSignature(signature) /\ storedTruthy(cachedMatches)
    THEN IF storedParseThrows(cachedMatches) THEN CacheThrow
         ELSE CacheHit(storedParse(cachedMatches))
    ELSE CacheMiss

\* lines 128-135: the stored map is parsed when the signatures are equal and
\* the entry is a non-empty string; a parse error is caught and logged
cacheCheck(signature, cachedSignature, cachedMatches) ==
    IF cachedSignature = StoredSignature(signature) /\ storedTruthy(cachedMatches)
    THEN IF storedParseThrows(cachedMatches) THEN CacheMiss
         ELSE CacheHit(storedParse(cachedMatches))
    ELSE CacheMiss

\* lines 145-146
scanCandidates(myItem, reports) ==
    FilterSeq(reports,
              {r \in Range(reports) :
                   /\ r.type = targetType(myItem)
                   /\ r.status = "OPEN"
                   /\ r.reporterId # ScanUser})

\* What lines 151-157 end with: findPotentialMatches resolves with results,
\* or an exception is thrown inside the try block.
ScanReturn(ids) == [k |-> "return", ids |-> ids]
ScanThrow == [k |-> "throw", ids |-> {}]
ScanOutcomes(candidates) ==
    {ScanThrow} \cup {ScanReturn(S) : S \in SUBSET {c.id : c \in Range(candidates)}}

\* lines 153-157
addMatches(newMatches, myItem, candidates, out) ==
    IF out.k = "return" /\ out.ids # {}
    THEN newMatches \cup
             {[item |-> myItem.id,
               found |-> FilterSeq(candidates, {c \in Range(candidates) : c.id \in out.ids})]}
    ELSE newMatches

StoppedScan(matches, cachedSignature, cachedMatches, scans, last) ==
    [pc |-> "idle", reports |-> <<>>, signature |-> <<>>, item |-> 0,
     newMatches |-> {}, requests |-> 0, matches |-> matches,
     cachedSignature |-> cachedSignature, cachedMatches |-> cachedMatches,
     scans |-> scans, last |-> last]

clearMatches_KeepsStore(s) ==
    StoppedScan(MatchMap({}), s.cachedSignature, s.cachedMatches, s.scans + 1, "cleared")

\* lines 111-116: no open report of the user
clearMatches(s) ==
    StoppedScan(MatchMap({}), NoSignature, NoEntry, s.scans + 1, "cleared")

\* scanAll from its start to the first await or to its return (lines
\* 107-140)
ScanStart(reports) ==
    /\ scan.pc = "idle" /\ scan.scans < MaxScans
    /\ LET check == cacheCheck(currentSignature(reports), scan.cachedSignature,
                               scan.cachedMatches)
       IN scan' =
              IF myOpenReports(reports) = <<>>
              THEN clearMatches(scan)
              ELSE IF check.k = "hit"
              THEN StoppedScan(check.value, scan.cachedSignature, scan.cachedMatches,
                               scan.scans + 1, "cache")
              ELSE [scan EXCEPT !.pc = IF check.k = "throw" THEN "failed" ELSE "scanning",
                                !.reports = reports,
                                !.signature = currentSignature(reports),
                                !.item = 1, !.newMatches = {}, !.requests = 0,
                                !.scans = @ + 1, !.last = "none"]
    /\ UNCHANGED <<cascadeVars, heur, norm, orch, merge, chat, json, auxVars>>

\* One turn of the loop (lines 143-162)
ScanItem(out) ==
    /\ scan.pc = "scanning" /\ scan.item <= Len(myOpenReports(scan.reports))
    /\ LET myItem == myOpenReports(scan.reports)[scan.item]
           candidates == scanCandidates(myItem, scan.reports)
       IN IF candidates = <<>>
          THEN /\ out = ScanThrow
               /\ scan' = [scan EXCEPT !.item = @ + 1]
          ELSE /\ out \in ScanOutcomes(candidates)
               /\ scan' = [scan EXCEPT
                              !.item = @ + 1, !.requests = @ + 1,
                              !.newMatches = addMatches(@, myItem, candidates, out)]
    /\ UNCHANGED <<cascadeVars, heur, norm, orch, merge, chat, json, auxVars>>

\* lines 165-168
ScanFinish ==
    /\ scan.pc = "scanning" /\ scan.item > Len(myOpenReports(scan.reports))
    /\ scan' = [StoppedScan(MatchMap(scan.newMatches), StoredSignature(scan.signature),
                            stringifyMatches(scan.newMatches), scan.scans, "scanned")
                    EXCEPT !.requests = scan.requests, !.reports = scan.reports]
    /\ UNCHANGED <<cascadeVars, heur, norm, orch, merge, chat, json, auxVars>>

\* What localStorage holds when the dashboard is mounted.
StoredSignatures ==
    {NoSignature} \cup
        {StoredSignature(currentSignature(l)) : l \in {r \in ScanLists : myOpenReports(r) # <<>>}}
StoredEntries ==
    {NoEntry, EmptyEntry, CorruptEntry, NullEntryText,
     stringifyMatches({[item |-> "r1", found |-> <<R2>>]})}

InitScan ==
    /\ \E sig \in StoredSignatures, entry \in StoredEntries :
           scan = StoppedScan(MatchMap({}), sig, entry, 0, "none")
    /\ merge = IdleMerge /\ chat = IdleChat
    /\ apiKey = TRUE /\ sessionBans = {} /\ calls = <<>>
    /\ heur = IdleHeur /\ norm = IdleNorm /\ orch = IdleOrch /\ json = IdleJson /\ IdleAux

NextScan ==
    \/ \E reports \in ScanLists : ScanStart(reports)
    \/ \E out \in ScanOutcomes(ScanPool) : ScanItem(out)
    \/ ScanFinish

SpecScan == InitScan /\ [][NextScan]_vars

(***************************************************************************)
(* The dashboard with the reports prop changing under it: the effect of    *)
(* lines 106-177 sets a timer for scanAll on every change of reports and   *)
(* clears the timer, and only the timer, in its cleanup; a scanAll that    *)
(* has started runs on with the reports of its render.                     *)
(***************************************************************************)
MaxRuns == 2
MaxMounts == 2

\* The reports prop: r1 of the user and r2; r2 resolved; r4 of the user and
\* r6 created; r1 deleted.
R2Resolved == [R2 EXCEPT !.status = "RESOLVED"]
DashLists == {<<R1, R2>>, <<R1, R2Resolved>>, <<R6, R4, R1, R2>>, <<R2>>}

dashOthers == <<cascadeVars, heur, norm, orch, merge, chat, scan, json, fpm, sel>>

\* A scanAll that has started: the component instance whose setMatches it
\* holds, and the reports and signature of its render.
ScanRun(pc, kind, instance, reports) ==
    [pc |-> pc, kind |-> kind, instance |-> instance, reports |-> reports,
     signature |-> currentSignature(reports), item |-> 1, newMatches |-> {}]

RunsInFlight(d) == {i \in DOMAIN d.runs : d.runs[i].pc = "scanning"}

\* The reports prop changes: the cleanup clears the timer and the effect
\* sets a new one (lines 172-177); an unmounted dashboard has no effect.
ReportsChange(reports) ==
    /\ dash.pc = "run" /\ reports # dash.reports
    /\ dash' = [dash EXCEPT !.reports = reports, !.timer = dash.mounted]
    /\ UNCHANGED dashOthers

\* The timer fires: scanAll from its start to the first await or to its
\* return (lines 107-140)
TimerFires ==
    /\ dash.pc = "run" /\ dash.mounted /\ dash.timer /\ Len(dash.runs) < MaxRuns
    /\ LET reports == dash.reports
           id == Len(dash.runs) + 1
           check == cacheCheck(currentSignature(reports), dash.cachedSignature,
                               dash.cachedMatches)
       IN dash' =
              IF myOpenReports(reports) = <<>>
              THEN [dash EXCEPT
                       !.timer = FALSE, !.matches = MatchMap({}),
                       !.cachedSignature = NoSignature, !.cachedMatches = NoEntry,
                       !.runs = Append(@, ScanRun("done", "cleared", dash.instance, reports)),
                       !.shownBy = id, !.storedBy = id]
              ELSE IF check.k = "hit"
              THEN [dash EXCEPT
                       !.timer = FALSE, !.matches = check.value,
                       !.runs = Append(@, ScanRun("done", "cache", dash.instance, reports)),
                       !.shownBy = id]
              ELSE [dash EXCEPT
                       !.timer = FALSE,
                       !.runs = Append(@, ScanRun("scanning", "scanned", dash.instance,
                                                  reports))]
    /\ UNCHANGED dashOthers

\* One turn of the loop of a scan in flight (lines 143-162)
RunItem(i, out) ==
    /\ dash.pc = "run" /\ i \in RunsInFlight(dash)
    /\ dash.runs[i].item <= Len(myOpenReports(dash.runs[i].reports))
    /\ LET run == dash.runs[i]
           myItem == myOpenReports(run.reports)[run.item]
           candidates == scanCandidates(myItem, run.reports)
       IN IF candidates = <<>>
          THEN /\ out = ScanThrow
               /\ dash' = [dash EXCEPT !.runs[i].item = @ + 1]
          ELSE /\ out \in ScanOutcomes(candidates)
               /\ dash' = [dash EXCEPT
                              !.runs[i].item = @ + 1,
                              !.runs[i].newMatches = addMatches(@, myItem, candidates, out)]
    /\ UNCHANGED dashOthers

\* lines 165-168: setMatches reaches the component the scan belongs to, and
\* nothing once that component is unmounted; localStorage is written
finishRun(d, i) ==
    LET run == d.runs[i]
        shown == d.mounted /\ run.instance = d.instance
    IN [d EXCEPT
           !.matches = IF shown THEN MatchMap(run.newMatches) ELSE @,
           !.shownBy = IF shown THEN i ELSE @,
           !.cachedSignature = StoredSignature(run.signature),
           !.cachedMatches = stringifyMatches(run.newMatches),
           !.storedBy = i,
           !.runs[i].pc = "done"]

RunFinish(i) ==
    /\ dash.pc = "run" /\ i \in RunsInFlight(dash)
    /\ dash.runs[i].item > Len(myOpenReports(dash.runs[i].reports))
    /\ dash' = finishRun(dash, i)
    /\ UNCHANGED dashOthers

\* The user leaves the dashboard: the cleanup clears the timer (line 175)
Unmount ==
    /\ dash.pc = "run" /\ dash.mounted
    /\ dash' = [dash EXCEPT !.mounted = FALSE, !.timer = FALSE,
                            !.matches = MatchMap({}), !.shownBy = 0]
    /\ UNCHANGED dashOthers

\* ... and comes back: a new component, its matches {} (line 98), its
\* effect run
Mount ==
    /\ dash.pc = "run" /\ ~dash.mounted /\ dash.instance < MaxMounts
    /\ dash' = [dash EXCEPT !.mounted = TRUE, !.instance = @ + 1, !.timer = TRUE]
    /\ UNCHANGED dashOthers

InitDash ==
    /\ \E reports \in DashLists :
           dash = [pc |-> "run", mounted |-> TRUE, instance |-> 1, reports |-> reports,
                   timer |-> TRUE, matches |-> MatchMap({}),
                   cachedSignature |-> NoSignature, cachedMatches |-> NoEntry,
                   runs |-> <<>>, shownBy |-> 0, storedBy |-> 0]
    /\ merge = IdleMerge /\ chat = IdleChat /\ scan = IdleScan /\ json = IdleJson
    /\ fpm = IdleFpm /\ sel = IdleSel
    /\ apiKey = TRUE /\ sessionBans = {} /\ calls = <<>>
    /\ heur = IdleHeur /\ norm = IdleNorm /\ orch = IdleOrch

NextDash ==
    \/ \E reports \in DashLists : ReportsChange(reports)
    \/ TimerFires
    \/ \E i \in 1..MaxRuns, out \in ScanOutcomes(ScanPool) : RunItem(i, out)
    \/ \E i \in 1..MaxRuns : RunFinish(i)
    \/ Unmount
    \/ Mount

SpecDash == InitDash /\ [][NextDash]_vars

(***************************************************************************)
(* findPotentialMatches of the cascade client (unnamed/part_004:298-337):  *)
(* the candidates go to generateWithGauntlet in batches, one request per   *)
(* batch.  Candidates are numbered 1..n; a match is {id}.                  *)
(***************************************************************************)
MaxCandidates == 21

\* line 307
BATCH_SIZE == 10

fpmOthers == <<cascadeVars, heur, norm, orch, merge, chat, scan, json, dash, sel>>

\* What a request ends with: generateWithGauntlet throws; or it resolves
\* with a text: "" (cleanJSON gives "{}"), a text JSON.parse rejects, the
\* text null, an object without matches, an object whose matches cannot be
\* spread (a number, an object), an object with a list of matches.
BatchThrow == [k |-> "throw", ids |-> <<>>]
BatchText(k, ids) == [k |-> k, ids |-> ids]
BatchOutcomes(batch) ==
    {BatchThrow}
    \cup {BatchText(k, <<>>) : k \in {"empty", "unparsable", "null", "nomatches", "noniterable"}}
    \cup {BatchText("matches", ids) : ids \in {<<>>, <<batch[1]>>, batch, <<0>>}}

\* candidateList.slice(i, i + BATCH_SIZE): line 311
slice(list, from, to) ==
    LET a == IF from > Len(list) THEN Len(list) ELSE from
        b == IF to > Len(list) THEN Len(list) ELSE to
    IN IF b > a THEN SubSeq(list, a + 1, b) ELSE <<>>

\* The loop body without its try block: a failing request or a failing
\* parse ends the call in the outer catch, with [].
afterBatch_NoInnerTry(f, batch, out) ==
    IF out.k \in {"throw", "unparsable", "null", "noniterable"}
    THEN [f EXCEPT !.pc = "done", !.result = [k |-> "return", matches |-> <<>>],
                   !.sent = Append(@, batch), !.answers = Append(@, out)]
    ELSE [f EXCEPT !.i = @ + BATCH_SIZE,
                   !.allMatches = @ \o out.ids,
                   !.sent = Append(@, batch), !.answers = Append(@, out)]

\* lines 319-329: the request, JSON.parse(cleanJSON(text)) and
\* allMatches.push(...data.matches) inside the try; the catch logs
afterBatch(f, batch, out) ==
    [f EXCEPT !.i = @ + BATCH_SIZE,
              !.allMatches = IF out.k = "matches" THEN @ \o out.ids ELSE @,
              !.sent = Append(@, batch), !.answers = Append(@, out)]

\* findPotentialMatches(query, candidates) up to the loop: lines 302-308
FpmInvoke(n) ==
    /\ fpm.pc = "idle"
    /\ LET call == [pc |-> "loop", candidates |-> [c \in 1..n |-> c], i |-> 0,
                    allMatches |-> <<>>, sent |-> <<>>, answers |-> <<>>,
                    result |-> [k |-> "none", matches |-> <<>>]]
       IN fpm' = IF n = 0
                 THEN [call EXCEPT !.pc = "done",
                                   !.result = [k |-> "return", matches |-> <<>>]]
                 ELSE call
    /\ UNCHANGED fpmOthers

\* One turn of the loop: lines 310-330
FpmBatch(out) ==
    /\ fpm.pc = "loop" /\ fpm.i < Len(fpm.candidates)
    /\ LET batch == slice(fpm.candidates, fpm.i, fpm.i + BATCH_SIZE)
       IN /\ out \in BatchOutcomes(batch)
          /\ fpm' = afterBatch(fpm, batch, out)
    /\ UNCHANGED fpmOthers

\* line 332
FpmReturn ==
    /\ fpm.pc = "loop" /\ fpm.i >= Len(fpm.candidates)
    /\ fpm' = [fpm EXCEPT !.pc = "done",
                          !.result = [k |-> "return", matches |-> fpm.allMatches]]
    /\ UNCHANGED fpmOthers

InitFpm ==
    /\ fpm = IdleFpm
    /\ merge = IdleMerge /\ chat = IdleChat /\ scan = IdleScan /\ json = IdleJson
    /\ dash = IdleDash /\ sel = IdleSel
    /\ apiKey = TRUE /\ sessionBans = {} /\ calls = <<>>
    /\ heur = IdleHeur /\ norm = IdleNorm /\ orch = IdleOrch

NextFpm ==
    \/ \E n \in 0..MaxCandidates : FpmInvoke(n)
    \/ \E out \in BatchOutcomes(<<1>>) \cup
                  {BatchText("matches", ids) :
                       ids \in {slice([c \in 1..MaxCandidates |-> c], a, b) :
                                    a, b \in 0..MaxCandidates}} :
           FpmBatch(out)
    \/ FpmReturn

SpecFpm == InitFpm /\ [][NextFpm]_vars

(***************************************************************************)
(* The chat view across a change of the active chat (unnamed/part_000:     *)
(* 47-72, 87-118).  Two chats, A and B, of the viewer U2 with another      *)
(* participant; message documents have ids that are unique over all chats  *)
(* (add() generates them).  store: the documents; chats: the chats prop as *)
(* the parent's listener delivered it; queue: the batches committed and    *)
(* not yet answered; notFound: the batch rejected last because a document  *)
(* it updates does not exist.  A listener shows the client's own pending   *)
(* writes to documents that exist.                                         *)
(***************************************************************************)
MaxMessages == 2
MaxPending == 1

ChatIds == {"A", "B"}
NoChat == "none"
Viewer == "U2"
NoBatch == [chat |-> NoChat, ids |-> {}, reset |-> FALSE, at |-> "none"]

selOthers == <<cascadeVars, heur, norm, orch, merge, chat, scan, json, dash, fpm>>

\* The chat whose messages subcollection holds the document id.
chatOf(s, id) ==
    CHOOSE c \in ChatIds : \E i \in DOMAIN s.store[c].sub : s.store[c].sub[i].id = id

docIds(s, c) == {s.store[c].sub[i].id : i \in DOMAIN s.store[c].sub}

TotalMessages(s) == Len(s.store["A"].sub) + Len(s.store["B"].sub)

pendingOn(s, c) == {i \in DOMAIN s.queue : s.queue[i].chat = c}

\* What the messages listener of chat c delivers (lines 59-64)
messagesSnapshot(s, c) ==
    [i \in DOMAIN s.store[c].sub |->
         IF \E j \in pendingOn(s, c) : s.store[c].sub[i].id \in s.queue[j].ids
         THEN [s.store[c].sub[i] EXCEPT !.status = "read"]
         ELSE s.store[c].sub[i]]

\* What the parent's listener delivers for chat c (line 34)
chatSnapshot(s, c) ==
    [unreadCount |-> IF \E j \in pendingOn(s, c) : s.queue[j].reset
                     THEN 0 ELSE s.store[c].unreadCount,
     lastSenderId |-> s.store[c].lastSenderId]

\* The mark-as-read effect of one render (lines 87-118): activeChatId,
\* subcollectionMessages and selectedChat are those of the render; every
\* docRef is chats/{activeChatId}/messages/{msg.id} (line 99).
markAsRead(s, at) ==
    IF s.activeChatId = NoChat THEN s
    ELSE LET view == [sub |-> s.subcollectionMessages,
                      summary |-> s.chats[s.activeChatId]]
             b == [chat |-> s.activeChatId, ids |-> unreadDocs(view, Viewer),
                   reset |-> needsReset(view, Viewer), at |-> at]
         IN IF b.ids # {} \/ b.reset
            THEN [s EXCEPT !.queue = Append(@, b)]
            ELSE s

\* onSelectChat(id): the render with the new activeChatId and the message
\* list of the render before.  Effect 1 (lines 47-72) detaches the listener,
\* calls setSubcollectionMessages([]) and attaches the listener of the new
\* chat; effect 2 (lines 87-118) runs in the same pass, with the list of
\* this render.  The cleared list is rendered next.
SelectChat(id) ==
    /\ sel.pc = "run" /\ id # sel.activeChatId
    /\ Len(sel.queue) < MaxPending
    /\ sel' = [markAsRead([sel EXCEPT !.activeChatId = id], "select")
                   EXCEPT !.pc = "cleared"]
    /\ UNCHANGED selOthers

\* The render after setSubcollectionMessages([]) (lines 49, 54): the list is
\* a new array, so effect 2 runs again.
ClearedRender ==
    /\ sel.pc = "cleared"
    /\ sel' = [markAsRead([sel EXCEPT !.subcollectionMessages = <<>>], "cleared")
                   EXCEPT !.pc = "run"]
    /\ UNCHANGED selOthers

\* onSnapshot of the active chat's messages (lines 59-64), the render and
\* effect 2
SwitchSnapshotMessages ==
    /\ sel.pc = "run" /\ sel.activeChatId # NoChat
    /\ sel.subcollectionMessages # messagesSnapshot(sel, sel.activeChatId)
    /\ sel' = markAsRead([sel EXCEPT !.subcollectionMessages =
                                         messagesSnapshot(sel, sel.activeChatId)],
                         "messages")
    /\ UNCHANGED selOthers

\* The chats prop changes (line 34); effect 2 runs when the unreadCount or
\* the lastSenderId of the selected chat has changed (line 118)
SwitchSnapshotChats ==
    /\ sel.pc = "run"
    /\ LET chats == [c \in ChatIds |-> chatSnapshot(sel, c)]
           s == [sel EXCEPT !.chats = chats]
       IN /\ chats # sel.chats
          /\ sel' = IF sel.activeChatId # NoChat
                       /\ chats[sel.activeChatId] # sel.chats[sel.activeChatId]
                    THEN markAsRead(s, "chats")
                    ELSE s
    /\ UNCHANGED selOthers

\* The other participant's handleSendMessage: messagesRef.add (lines 177-190)
MessageAdded(c) ==
    /\ sel.pc \in {"run", "cleared"} /\ sel.store[c].owed = 0
    /\ TotalMessages(sel) < MaxMessages
    /\ sel' = [sel EXCEPT !.store[c].sub =
                              Append(@, [id |-> TotalMessages(sel) + 1,
                                         senderId |-> "U1", status |-> "sent"]),
                          !.store[c].owed = 1]
    /\ UNCHANGED selOthers

\* ... and chatRef.update with increment(1) (lines 192-199)
SummaryUpdated(c) ==
    /\ sel.pc \in {"run", "cleared"} /\ sel.store[c].owed = 1
    /\ sel' = [sel EXCEPT !.store[c].unreadCount = @ + 1,
                          !.store[c].lastSenderId = "U1",
                          !.store[c].owed = 0]
    /\ UNCHANGED selOthers

\* batch.commit() resolves: every updated document exists, and the batch is
\* applied atomically
SwitchCommitOk ==
    /\ sel.pc = "run" /\ sel.queue # <<>>
    /\ LET b == Head(sel.queue)
       IN /\ b.ids \subseteq docIds(sel, b.chat)
          /\ sel' = [sel EXCEPT
                         !.store[b.chat].sub =
                             [i \in DOMAIN @ |->
                                  IF @[i].id \in b.ids
                                  THEN [@[i] EXCEPT !.status = "read"] ELSE @[i]],
                         !.store[b.chat].unreadCount = IF b.reset THEN 0 ELSE @,
                         !.queue = Tail(@)]
    /\ UNCHANGED selOthers

\* batch.commit() rejects with not-found: update() of a document that does
\* not exist fails the whole batch; logged (line 115)
SwitchCommitNotFound ==
    /\ sel.pc = "run" /\ sel.queue # <<>>
    /\ LET b == Head(sel.queue)
       IN /\ ~(b.ids \subseteq docIds(sel, b.chat))
          /\ sel' = [sel EXCEPT !.queue = Tail(@), !.notFound = b]
    /\ UNCHANGED selOthers

\* batch.commit() rejects for another reason (the network, the rules);
\* logged (line 115)
SwitchCommitFail ==
    /\ sel.pc = "run" /\ sel.queue # <<>>
    /\ sel' = [sel EXCEPT !.queue = Tail(@)]
    /\ UNCHANGED selOthers

InitSwitch ==
    /\ sel = [pc |-> "run", activeChatId |-> NoChat, subcollectionMessages |-> <<>>,
              chats |-> [c \in ChatIds |-> [unreadCount |-> 0, lastSenderId |-> NoUser]],
              store |-> [c \in ChatIds |-> [sub |-> <<>>, unreadCount |-> 0,
                                            lastSenderId |-> NoUser, owed |-> 0]],
              queue |-> <<>>, notFound |-> NoBatch]
    /\ merge = IdleMerge /\ chat = IdleChat /\ scan = IdleScan /\ json = IdleJson
    /\ dash = IdleDash /\ fpm = IdleFpm
    /\ apiKey = TRUE /\ sessionBans = {} /\ calls = <<>>
    /\ heur = IdleHeur /\ norm = IdleNorm /\ orch = IdleOrch

NextSwitch ==
    \/ \E id \in ChatIds \cup {NoChat} : SelectChat(id)
    \/ ClearedRender
    \/ SwitchSnapshotMessages
    \/ SwitchSnapshotChats
    \/ \E c \in ChatIds : MessageAdded(c)
    \/ \E c \in ChatIds : SummaryUpdated(c)
    \/ SwitchCommitOk
    \/ SwitchCommitNotFound
    \/ SwitchCommitFail

SpecSwitch == InitSwitch /\ [][NextSwitch]_vars

(***************************************************************************)
(* The JSON coercion of a model answer: cleanJSON, whose result every      *)
(* caller hands to JSON.parse (services/geminiService.ts:22-47, 212-213;   *)
(* unnamed/part_004:439-464).  JSON texts are built from objects with the  *)
(* keys a and b, arrays, digits, quoted letters and null.                  *)
(***************************************************************************)
RECURSIVE removeAll(_, _, _)
\* String.prototype.replace(/pat/g, ""); ci is the i flag
removeAll(s, pat, ci) ==
    IF Len(s) < Len(pat) THEN s
    ELSE LET head == SubSeq(s, 1, Len(pat))
         IN IF (IF ci THEN toLowerCase(head) ELSE head) = pat
            THEN removeAll(SubSeq(s, Len(pat) + 1, Len(s)), pat, ci)
            ELSE <<Head(s)>> \o removeAll(Tail(s), pat, ci)

RECURSIVE trimEnd(_)
trimEnd(s) ==
    IF s # <<>> /\ IsSpaceChar(s[Len(s)]) THEN trimEnd(SubSeq(s, 1, Len(s) - 1)) ELSE s

\* String.prototype.trim
trim(s) == trimEnd(SkipSpaces(s))

\* String.prototype.indexOf and lastIndexOf of one character: -1 when absent
indexOf(s, c) ==
    IF \E i \in DOMAIN s : s[i] = c
    THEN (CHOOSE i \in DOMAIN s : s[i] = c /\ \A j \in 1..(i - 1) : s[j] # c) - 1
    ELSE -1

lastIndexOf(s, c) ==
    IF \E i \in DOMAIN s : s[i] = c
    THEN (CHOOSE i \in DOMAIN s : s[i] = c /\ \A j \in (i + 1)..Len(s) : s[j] # c) - 1
    ELSE -1

\* String.prototype.substring: the arguments are clamped and swapped
substring(s, a, b) ==
    LET clamp(x) == IF x < 0 THEN 0 ELSE IF x > Len(s) THEN Len(s) ELSE x
        lo == IF clamp(a) <= clamp(b) THEN clamp(a) ELSE clamp(b)
        hi == IF clamp(a) <= clamp(b) THEN clamp(b) ELSE clamp(a)
    IN SubSeq(s, lo + 1, hi)

\* The backquote of a code fence is written "^".
S_FenceJson == <<"^", "^", "^", "j", "s", "o", "n">>
S_Fence == <<"^", "^", "^">>
S_EmptyObject == <<"{", "}">>

\* lines 29-44 (part_004:447-460): the text from the first opener to the
\* last closer of its kind, when both are found
betweenDelimiters(cleaned) ==
    LET firstBrace == indexOf(cleaned, "{")
        firstBracket == indexOf(cleaned, "[")
        useBrace == firstBrace # -1 /\ (firstBracket = -1 \/ firstBrace < firstBracket)
        start == IF useBrace THEN firstBrace ELSE firstBracket
        end == IF useBrace THEN lastIndexOf(cleaned, "}")
               ELSE IF firstBracket # -1 THEN lastIndexOf(cleaned, "]") ELSE -1
    IN [found |-> start # -1 /\ end # -1,
        text |-> IF start # -1 /\ end # -1 THEN substring(cleaned, start, end + 1) ELSE <<>>]

\* JSON.parse.  A parser position is an index into s, 0 after a syntax
\* error.
RECURSIVE jsonSkip(_, _)
jsonSkip(s, i) == IF i <= Len(s) /\ IsSpaceChar(s[i]) THEN jsonSkip(s, i + 1) ELSE i

RECURSIVE jsonDigits(_, _)
jsonDigits(s, i) == IF i <= Len(s) /\ IsDigit(s[i]) THEN jsonDigits(s, i + 1) ELSE i

RECURSIVE jsonLetters(_, _)
jsonLetters(s, i) ==
    IF i <= Len(s) /\ s[i] \in Range(LowerChars) THEN jsonLetters(s, i + 1) ELSE i

\* a string: the index after its closing quote
jsonString(s, i) ==
    IF i <= Len(s) /\ s[i] = "\""
    THEN LET j == jsonLetters(s, i + 1)
         IN IF j <= Len(s) /\ s[j] = "\"" THEN j + 1 ELSE 0
    ELSE 0

RECURSIVE jsonValue(_, _)
RECURSIVE jsonElements(_, _)
RECURSIVE jsonMembers(_, _)
\* a value that starts at or after i: the index after it
jsonValue(s, i) ==
    LET j == jsonSkip(s, i)
    IN IF j > Len(s) THEN 0
       ELSE IF IsDigit(s[j]) THEN jsonDigits(s, j)
       ELSE IF s[j] = "\"" THEN jsonString(s, j)
       ELSE IF j + 3 <= Len(s) /\ SubSeq(s, j, j + 3) = <<"n", "u", "l", "l">> THEN j + 4
       ELSE IF s[j] = "["
            THEN LET k == jsonSkip(s, j + 1)
                 IN IF k <= Len(s) /\ s[k] = "]" THEN k + 1 ELSE jsonElements(s, k)
       ELSE IF s[j] = "{"
            THEN LET k == jsonSkip(s, j + 1)
                 IN IF k <= Len(s) /\ s[k] = "}" THEN k + 1 ELSE jsonMembers(s, k)
       ELSE 0

jsonElements(s, i) ==
    LET j == jsonValue(s, i)
        k == jsonSkip(s, j)
    IN IF j = 0 \/ k > Len(s) THEN 0
       ELSE IF s[k] = "," THEN jsonElements(s, k + 1)
       ELSE IF s[k] = "]" THEN k + 1
       ELSE 0

jsonMembers(s, i) ==
    LET key == jsonString(s, jsonSkip(s, i))
        colon == jsonSkip(s, key)
        j == IF key = 0 \/ colon > Len(s) \/ s[colon] # ":" THEN 0
             ELSE jsonValue(s, colon + 1)
        k == jsonSkip(s, j)
    IN IF j = 0 \/ k > Len(s) THEN 0
       ELSE IF s[k] = "," THEN jsonMembers(s, k + 1)
       ELSE IF s[k] = "}" THEN k + 1
       ELSE 0

\* The parsed value: its kind and its text without white space (the quoted
\* strings of the inputs hold none), or the SyntaxError.
JsonThrow == [k |-> "throw", kind |-> "none", text |-> <<>>]
JsonValue(kind, text) == [k |-> "value", kind |-> kind, text |-> text]
EmptyObject == JsonValue("object", S_EmptyObject)

jsonParse(s) ==
    LET first == jsonSkip(s, 1)
        end == jsonValue(s, 1)
    IN IF end = 0 \/ jsonSkip(s, end) # Len(s) + 1 THEN JsonThrow
       ELSE JsonValue(IF s[first] = "{" THEN "object"
                      ELSE IF s[first] = "[" THEN "array" ELSE "scalar",
                      RemoveChars(s, {" ", "\t", "\n"}))

\* services/geminiService.ts:22-47
cleanJSON(text) ==
    IF text = <<>> THEN S_EmptyObject
    ELSE LET cleaned == trim(removeAll(removeAll(text, S_FenceJson, TRUE), S_Fence, FALSE))
             between == betweenDelimiters(cleaned)
         IN IF between.found THEN between.text ELSE cleaned

\* unnamed/part_004:439-464, the cleanJSON of the Gauntlet functions
cleanJSONGauntlet(text) ==
    IF text = <<>> THEN S_EmptyObject
    ELSE LET cleaned == trim(removeAll(removeAll(text, S_FenceJson, FALSE), S_Fence, FALSE))
             between == betweenDelimiters(cleaned)
         IN IF jsonParse(cleaned).k = "value" THEN cleaned
            ELSE IF between.found THEN between.text
            ELSE S_EmptyObject

\* The answers coerced: a body, possibly in prose or in a code fence.
JsonPrefixes ==
    {<<>>, <<"S", "u", "r", "e", ":", " ">>, S_FenceJson \o <<"\n">>,
     <<"^", "^", "^", "J", "S", "O", "N", "\n">>, S_Fence \o <<"\n">>}
JsonBodies ==
    {<<>>, S_EmptyObject, <<"[", "]">>,
     <<"{", "\"", "a", "\"", ":", "1", "}">>,
     <<"[", "{", "\"", "a", "\"", ":", "1", "}", "]">>,
     <<"{", "\"", "a", "\"", ":", " ", "[", "1", ",", "2", "]", "}">>,
     <<"{">>, <<"}">>, <<"[", "1">>, <<"{", "]">>, <<"}", " ", "{">>,
     <<"h", "e", "l", "l", "o">>, <<"5">>, <<"n", "u", "l", "l">>,
     <<"{", "\"", "a", "\"", ":", "1", "}", " ", "{", "\"", "b", "\"", ":", "1", "}">>,
     <<"[", "1", "]", " ", "{", "}">>,
     <<"{", "a", "}">>}
JsonSuffixes == {<<>>, <<"\n">> \o S_Fence, <<" ", "o", "k">>, <<" ", "}">>}
JsonInputs == {p \o b \o x : p \in JsonPrefixes, b \in JsonBodies, x \in JsonSuffixes}

InitCoerce ==
    /\ \E text \in JsonInputs, fn \in {"cleanJSON", "cleanJSONGauntlet"} :
           json = [pc |-> "text", fn |-> fn, text |-> text, cleaned |-> <<>>,
                   out |-> JsonThrow]
    /\ merge = IdleMerge /\ chat = IdleChat /\ scan = IdleScan
    /\ apiKey = TRUE /\ sessionBans = {} /\ calls = <<>>
    /\ heur = IdleHeur /\ norm = IdleNorm /\ orch = IdleOrch /\ IdleAux

\* cleanJSON(text)
Clean ==
    /\ json.pc = "text"
    /\ json' = [json EXCEPT !.pc = "cleaned",
                            !.cleaned = IF json.fn = "cleanJSON" THEN cleanJSON(json.text)
                                        ELSE cleanJSONGauntlet(json.text)]
    /\ UNCHANGED <<cascadeVars, heur, norm, orch, merge, chat, scan, auxVars>>

\* JSON.parse(cleanJSON(text))
Parse ==
    /\ json.pc = "cleaned"
    /\ json' = [json EXCEPT !.pc = "parsed", !.out = jsonParse(json.cleaned)]
    /\ UNCHANGED <<cascadeVars, heur, norm, orch, merge, chat, scan, auxVars>>

NextCoerce == Clean \/ Parse

SpecCoerce == InitCoerce /\ [][NextCoerce]_vars

(***************************************************************************)
(* Claims about the Model Cascade Client (checked under SpecCascade).      *)
(* Ghost fields of a call: reqs (the models requested in the current pass, *)
(* in order of issue), log (the outcome of every answered request of the   *)
(* pass), resets (resetBans calls made by this call), bansAtEntry (the     *)
(* exclusion set when the current pass took its pipeline), lastErr with    *)
(* lastBefore/lastAfter (the last failure and whether its model was        *)
(* excluded before and after the catch block ran).                         *)
(***************************************************************************)
ThrownClasses == {"notfound", "quota", "other", "error"}

\* Requests follow the ordering, one at a time, each after the failure of
\* the one before; a text result is that of the last model requested.
\* failed(k) is the set of outcome classes that count as a failed request.
SequentialCascade(k, failed) ==
    /\ Cardinality(k.inflight) <= 1
    /\ Len(k.reqs) <= Len(k.pipeline)
    /\ \A i \in 1..Len(k.reqs) : k.reqs[i] = k.pipeline[i]
    /\ \A i, j \in 1..Len(k.pipeline) : i < j => k.pipeline[i] < k.pipeline[j]
    /\ Len(k.log) <= Len(k.reqs)
    /\ \A i \in 1..Len(k.log) : k.log[i].model = k.reqs[i]
    /\ \A i \in 1..(Len(k.reqs) - 1) :
          i <= Len(k.log) /\ k.log[i].cls \in failed
    /\ k.pc = "await" => k.inflight = {k.reqs[Len(k.reqs)]}
                         /\ Len(k.log) = Len(k.reqs) - 1
    /\ k.pc = "done" => k.inflight = {}
    /\ (k.pc = "done" /\ k.result.k = "text") =>
          /\ Len(k.log) = Len(k.reqs) /\ Len(k.reqs) > 0
          /\ k.result.model = k.reqs[Len(k.reqs)]
          /\ k.log[Len(k.log)].cls \notin failed

\* C2 (as stated): in both cascade runners the candidates are requested in
\* the order of the ordering list, one at a time, the next one only after
\* the previous request has failed (thrown) and been classified, and the
\* call returns the text of the first model whose request succeeds.
C2_Original ==
    \A c \in Callers : SequentialCascade(calls[c], ThrownClasses)

\* C2 (amended): as C2, where in runCascade a response that carries no text
\* counts as a failed request (the next candidate is requested), while
\* generateWithGauntlet returns the first response, even an empty one.
C2_Sequential ==
    \A c \in Callers :
        SequentialCascade(calls[c],
            IF calls[c].fn = "cascade" THEN ThrownClasses \cup {"empty"}
            ELSE ThrownClasses)

\* C2 witness: a generateWithGauntlet call that returned the text of its
\* third candidate after two failed requests.
C2_Witness ==
    \E c \in Callers :
        /\ calls[c].fn = "gauntlet" /\ calls[c].pc = "done"
        /\ calls[c].result.k = "text" /\ calls[c].result.model = 3
        /\ Len(calls[c].log) = 3

\* C3: a model whose request fails with 404 or 429 is in the exclusion set
\* after the failure is classified; a failure with another status and no
\* not-found/quota message leaves the model's membership unchanged; no pass
\* requests a model that was excluded when the pass began (which is after a
\* self-heal reset, if there was one); and when models 1 and 2 answer
\* NotFound and model 3 succeeds the call returns model 3's text with 1 and
\* 2 excluded.
C3_Exclusion ==
    \A c \in Callers :
        LET k == calls[c] IN
        /\ (k.lastErr.status \in {404, 429}) => k.lastAfter
        /\ (k.lastErr.status \notin {0, 404, 429} /\ k.lastErr.msg = "")
              => (k.lastAfter = k.lastBefore)
        /\ k.fn = "gauntlet" => \A i \in 1..Len(k.reqs) : k.reqs[i] \notin k.bansAtEntry
        /\ (k.fn = "gauntlet" /\ k.pc = "done" /\ Len(k.log) = 3
            /\ k.log[1] = [model |-> 1, cls |-> "notfound"]
            /\ k.log[2] = [model |-> 2, cls |-> "notfound"]
            /\ k.log[3] = [model |-> 3, cls |-> "ok"])
              => (k.result = TextResult(3, FALSE) /\ {1, 2} \subseteq sessionBans)

\* C3 witness: a later call of the session, started with models 1 and 2
\* excluded, whose first request goes to model 3.
C3_Witness ==
    \E c \in Callers :
        /\ calls[c].fn = "gauntlet" /\ calls[c].pc = "await"
        /\ calls[c].retryCount = 0 /\ calls[c].resets = 0
        /\ calls[c].bansAtEntry = {1, 2}
        /\ calls[c].reqs = <<3>>

TotalFailure(k) ==
    /\ k.fn = "gauntlet" /\ k.pc = "done" /\ k.result.k = "throw"
    /\ k.result.err \in {"ALL_MODELS_FAILED", "lastError"}

\* C4 (as stated): a call declares total failure only after it has cleared
\* the exclusion set once and has retried the full ordering from the top,
\* which failed again; the exclusion set is cleared at most once per call.
C4_SelfHealBeforeFailure ==
    \A c \in Callers :
        LET k == calls[c] IN
        /\ k.resets <= 1
        /\ TotalFailure(k) =>
              /\ k.resets = 1
              /\ k.retryCount = 1
              /\ k.pipeline = MODEL_PIPELINE
              /\ Len(k.log) = Len(MODEL_PIPELINE)
              /\ \A i \in 1..Len(k.log) : k.log[i].cls \in ThrownClasses

(***************************************************************************)
(* Claims about the Similarity Heuristic (checked under SpecHeuristic).    *)
(***************************************************************************)
\* C5: the score is 0 for every pair of reports of the same type and for
\* every pair of different categories; a non-zero score implies opposite
\* types and equal category.
C5_TypeAndCategoryGate ==
    heur.pc = "scored" =>
        /\ heur.a.type = heur.b.type => heur.score = 0
        /\ heur.a.category # heur.b.category => heur.score = 0
        /\ heur.score # 0 => (heur.a.type # heur.b.type
                              /\ heur.a.category = heur.b.category)

\* C5 witness: a scored pair of opposite types whose titles share two long
\* words but whose categories differ.
C5_Witness ==
    /\ heur.pc = "scored"
    /\ heur.a.type # heur.b.type /\ heur.a.id # heur.b.id
    /\ heur.a.category # heur.b.category
    /\ intersectionCount(heur.a, heur.b) >= 2

\* C6 (as stated): the score is an integer in 0..100 for every pair.
C6_ScoreRange ==
    heur.pc = "scored" => heur.score \in 0..100

(***************************************************************************)
(* Claims about the confidence normalisation (checked under SpecNormalize).*)
(***************************************************************************)
\* C7 (as stated): the normalisation is idempotent and range-safe: applied
\* to its own result it returns that result, and its result is always an
\* integer in [0, 100].
C7_IdempotentAndRangeSafe ==
    /\ norm.pc \in {"once", "twice"} => IsPercentInt(norm.once)
    /\ norm.pc = "twice" => (IsPercentInt(norm.twice) /\ norm.twice = norm.once)

(***************************************************************************)
(* Claims about the Match Orchestrator (SpecOrch).                         *)
(***************************************************************************)
Completed(op) == orch.pc = "done" /\ orch.op = op

\* C1: every exported AI operation completes with a result value and never
\* propagates an error to its caller, whatever the provider does (a valid
\* JSON answer, an answer that is not parsable JSON, an empty answer, a
\* failed request).
C1_NeverThrows == orch.pc = "done" => orch.result.k = "return"

\* C8: every result of compareItems, from the pre-check, from the model's
\* answer or from the local fallback, carries a confidence c with
\* 0 <= c <= 100, whatever confidence the answer carries.
C8_ConfidenceWithinRange ==
    Completed("compareItems") =>
        /\ NumLeq(Whole(0), orch.result.confidence)
        /\ NumLeq(orch.result.confidence, Whole(100))

\* C9: two items with identical title strings and identical description
\* strings (short or empty ones included) compare with confidence 99,
\* whatever the remote model answers and whether or not it fails.
C9_IdenticalItemsPinned ==
    ( /\ Completed("compareItems")
      /\ orch.item1.title = orch.item2.title
      /\ orch.item1.description = orch.item2.description )
    => orch.result.confidence = Whole(99)

\* C10: every report findSmartMatches returns has the opposite type to the
\* source, has status OPEN, is not the source itself and was not reported
\* by the source's reporter.
C10_CandidateExclusions ==
    ( Completed("findSmartMatches") /\ orch.result.k = "return" ) =>
        \A i \in DOMAIN orch.result.matches :
            LET r == orch.result.matches[i].report
            IN /\ r.type # orch.item1.type
               /\ r.status = "OPEN"
               /\ r.id # orch.item1.id
               /\ r.reporterId # orch.item1.reporterId

\* The position of a report in the candidate list of the call.
CandidateIndex(id) ==
    CHOOSE i \in DOMAIN orch.candidates : orch.candidates[i].id = id

\* C11: the sequence findSmartMatches returns is in non-increasing order of
\* confidence, and entries of equal confidence appear in the order of their
\* reports in the candidate list, for confidences from the model and from
\* the local scores alike.
C11_SortedStable ==
    ( Completed("findSmartMatches") /\ orch.result.k = "return" ) =>
        \A i, j \in DOMAIN orch.result.matches :
            i < j =>
                LET a == orch.result.matches[i]
                    b == orch.result.matches[j]
                IN /\ NumLeq(b.confidence, a.confidence)
                   /\ NumEq(a.confidence, b.confidence) =>
                          CandidateIndex(a.report.id) <= CandidateIndex(b.report.id)

\* The provider gave no answer: every AI request of the call failed.
AIFailed == orch.out.shape \in {"throw", "noputer"}

ReturnedReports == [i \in DOMAIN orch.result.matches |-> orch.result.matches[i].report]

SharesTitleToken(a, b) == SimWords(a.title) \cap SimWords(b.title) # {}

\* C12: when every AI request fails the find-candidates operation returns
\* the candidates that have the source's category and share a title token
\* with the source, and returns no candidate of another category; for the
\* LOST Electronics source 'Black iPhone 13' and the FOUND candidates
\* 'iPhone found near library' (Electronics) and 'Black iPhone case'
\* (Accessories) it returns exactly the first.
C12_LocalFallbackByCategory ==
    /\ ( Completed("findSmartMatches") /\ orch.result.k = "return"
         /\ orch.result.src # "none" /\ AIFailed ) =>
           /\ \A i \in DOMAIN ReturnedReports :
                  ReturnedReports[i].category = orch.item1.category
           /\ \A i \in DOMAIN orch.candidates :
                  ( orch.candidates[i].category = orch.item1.category
                    /\ SharesTitleToken(orch.item1, orch.candidates[i]) )
                  => \E j \in DOMAIN ReturnedReports :
                         ReturnedReports[j] = orch.candidates[i]
           /\ ( orch.item1 = R1 /\ orch.allReports = <<R1, R2, R3>> )
                  => ReturnedReports = <<R2>>
    /\ Completed("performLocalFallbackMatch") =>
           /\ \A i \in DOMAIN ReturnedReports :
                  ReturnedReports[i].category = orch.item1.category
           /\ ( orch.item1 = R1 /\ orch.candidates = <<R2, R3>> )
                  => ReturnedReports = <<R2>>

(***************************************************************************)
(* Claims about the chat (SpecMerge, SpecChat).                            *)
(***************************************************************************)
KeysOf(msgs) == {messageKey(msgs[i]) : i \in DOMAIN msgs}

\* C13: the merged list holds exactly one entry per distinct key of the
\* legacy list and the subcollection stream (the key is the id, or the
\* timestamp of a message without id); for a key present in both the entry
\* is the subcollection's message; the list is in non-decreasing timestamp
\* order.
C13_MergeByKey ==
    merge.pc = "merged" =>
        /\ KeysOf(merge.merged) = KeysOf(merge.legacy) \cup KeysOf(merge.live)
        /\ \A i, j \in DOMAIN merge.merged :
               i # j => messageKey(merge.merged[i]) # messageKey(merge.merged[j])
        /\ \A i \in DOMAIN merge.live :
               \E j \in DOMAIN merge.merged : merge.merged[j] = merge.live[i]
        /\ \A i, j \in DOMAIN merge.merged :
               i < j => merge.merged[i].timestamp <= merge.merged[j].timestamp

\* C13 witness: a merge of a legacy list and a stream that share the key
\* "a" with different contents and order, beside a second message.
C13_Witness ==
    /\ merge.pc = "merged"
    /\ \E i \in DOMAIN merge.legacy, j \in DOMAIN merge.live :
           /\ merge.legacy[i].id = "a" /\ merge.live[j].id = "a"
           /\ merge.legacy[i].timestamp > merge.live[j].timestamp
    /\ Len(merge.legacy) = 2 /\ merge.legacy[1].timestamp > merge.legacy[2].timestamp
    /\ Len(merge.merged) = 2

\* The messages of the chat a viewer has been shown: the legacy list and the
\* documents its messages listener has delivered.
ShownTo(c, u) ==
    {c.store.legacy[i] : i \in DOMAIN c.store.legacy}
    \cup {c.store.sub[i] : i \in DOMAIN c.store.sub \cap DOMAIN c.client[u].view.sub}

\* C14: after read reconciliation has run for viewer V on an open chat with
\* unreadCount > 0 and lastSenderId other than V, unreadCount is 0 and
\* every message not authored by V, from the legacy list or from the
\* subcollection, has status read.
C14_ReconciliationReadsAll ==
    [][\A u \in ChatUsers :
           ( CommitOk(u) /\ Head(chat.client[u].queue).reset ) =>
               /\ chat'.store.summary.unreadCount = 0
               /\ \A m \in ShownTo(chat', u) : m.senderId # u => m.status = "read"]_vars

\* No send is in progress.
NoSendInProgress == \A u \in ChatUsers : chat.client[u].send.pc = "idle"

\* v is not the last sender and has the chat open.
ViewedByReceiver(v) ==
    chat.store.summary.lastSenderId = OtherUser(v) /\ chat.client[v].open

SenderOf(c, id) == c.store.sub[CHOOSE i \in DOMAIN c.store.sub : c.store.sub[i].id = id].senderId

SentMessage(c, u) ==
    [id |-> Len(c.store.sub) + 1, senderId |-> u,
     timestamp |-> c.client[u].send.timestamp, status |-> "sent",
     attachment |-> c.client[u].send.attachment]

SentSummary(c, u) ==
    [unreadCount |-> c.store.summary.unreadCount + 1,
     lastSenderId |-> u,
     lastMessage |-> IF c.client[u].send.attachment THEN "Sent a photo" ELSE "text",
     lastMessageTime |-> c.client[u].send.timestamp]

\* The summary fields a send writes, the count left aside.
SummaryOfSend(c) ==
    <<c.store.summary.lastSenderId, c.store.summary.lastMessage,
      c.store.summary.lastMessageTime>>

\* C17: the send first appends the message with status SENT and only after
\* the append has succeeded updates the summary (lastMessage,
\* lastMessageTime, lastSenderId the sender, unreadCount plus exactly 1); a
\* failing write is reported to the sender; a failed summary update leaves
\* the appended message in place and a failed append leaves the summary
\* unchanged.
C17_SendTwoWrites ==
    [][/\ \A u \in ChatUsers :
              /\ ( chat.client[u].send.pc = "adding" /\ chat'.client[u].send.pc # "adding" ) =>
                     /\ chat'.store.summary = chat.store.summary
                     /\ \/ /\ chat'.client[u].send.pc = "updating"
                           /\ chat'.store.sub = Append(chat.store.sub, SentMessage(chat, u))
                        \/ /\ chat'.client[u].send.pc = "alert"
                           /\ chat'.store.sub = chat.store.sub
              /\ ( chat.client[u].send.pc = "updating" /\ chat'.client[u].send.pc # "updating" ) =>
                     /\ chat'.store.sub = chat.store.sub
                     /\ \/ /\ chat'.client[u].send.pc = "idle"
                           /\ chat'.store.summary = SentSummary(chat, u)
                        \/ /\ chat'.client[u].send.pc = "alert"
                           /\ chat'.store.summary = chat.store.summary
              /\ chat'.client[u].send.pc = "updating" =>
                     chat.client[u].send.pc \in {"adding", "updating"}
       /\ ( SummaryOfSend(chat') # SummaryOfSend(chat)
            \/ chat'.store.summary.unreadCount > chat.store.summary.unreadCount ) =>
              \E u \in ChatUsers : chat.client[u].send.pc = "updating"
       /\ Len(chat'.store.sub) > Len(chat.store.sub) =>
              \E u \in ChatUsers : chat.client[u].send.pc = "adding"]_vars

\* C17 witness: the append of U1 succeeded and the summary update failed;
\* the alert is shown, the message is in place, the summary is as before.
C17_Witness ==
    /\ chat.pc = "run" /\ chat.client["U1"].send.pc = "alert"
    /\ Len(chat.store.sub) = 1 /\ chat.store.sub[1].senderId = "U1"
    /\ chat.store.summary.lastMessageTime = 0

\* C18: while the chat is blocked by participant B, no message authored by
\* the other participant, text or attachment, is appended to the chat, in
\* every interleaving of B's block action with the other's send.
C18_NoAppendWhileBlocked ==
    [][\A b \in ChatUsers :
           ( chat.store.isBlocked /\ chat.store.blockedBy = b
             /\ Len(chat'.store.sub) > Len(chat.store.sub) ) =>
               chat'.store.sub[Len(chat'.store.sub)].senderId = b]_vars

\* b has the chat open and sees the block b has set.
SeesOwnBlock(c, b) ==
    /\ c.store.isBlocked /\ c.store.blockedBy = b
    /\ c.client[b].open /\ c.client[b].send.pc = "idle"
    /\ c.client[b].view.isBlocked /\ c.client[b].view.blockedBy = b

\* C19: while the chat is blocked by participant B, B can still send a text
\* message in the chat and can unblock it; the block state (isBlocked with
\* blockedBy) names exactly one participant as the one who can send.
C19_BlockerCanSendAndUnblock ==
    /\ chat.pc = "run" /\ chat.store.isBlocked => chat.store.blockedBy \in ChatUsers
    /\ \A b \in ChatUsers :
           ( chat.pc = "run" /\ SeesOwnBlock(chat, b) ) =>
               /\ CanSendText(chat, b)
               /\ CanUnblock(chat, b)
               /\ ~CanSendText(chat, OtherUser(b))

\* The stored entry is a string that JSON.parse accepts.
storedParses(entry) == storedTruthy(entry) /\ ~storedParseThrows(entry)

\* The reports of the scan that are matched against at least one candidate.
ItemsWithCandidates(reports) ==
    {i \in DOMAIN myOpenReports(reports) :
         scanCandidates(myOpenReports(reports)[i], reports) # <<>>}

\* C20: when a scan runs, the signature of the current reports equals the
\* stored signature and the stored match map can be parsed, the stored map
\* is used verbatim and no AI request is issued; when the stored map cannot
\* be parsed the scan treats it as a cache miss and performs a full scan,
\* never failing.
C20_CacheReuse ==
    [][/\ scan'.pc # "failed"
       /\ \A reports \in ScanLists :
              ( /\ ScanStart(reports)
                /\ myOpenReports(reports) # <<>>
                /\ scan.cachedSignature = StoredSignature(currentSignature(reports)) ) =>
                  IF storedParses(scan.cachedMatches)
                  THEN /\ scan'.pc = "idle" /\ scan'.last = "cache"
                       /\ scan'.matches = storedParse(scan.cachedMatches)
                       /\ scan'.requests = 0
                       /\ scan'.cachedMatches = scan.cachedMatches
                  ELSE /\ scan'.pc = "scanning" /\ scan'.item = 1
                       /\ scan'.reports = reports
       /\ ScanFinish =>
              /\ scan'.pc = "idle" /\ scan'.last = "scanned"
              /\ scan.requests = Cardinality(ItemsWithCandidates(scan.reports))
              /\ scan'.cachedMatches = stringifyMatches(scan.newMatches)]_vars

\* C20 witness: the second scan has found the stored signature equal to the
\* current one and has taken the stored map as it was, without a request.
C20_Witness ==
    /\ scan.pc = "idle" /\ scan.scans = 2 /\ scan.last = "cache"
    /\ scan.requests = 0
    /\ scan.matches = MatchMap({[item |-> "r1", found |-> <<R2>>]})
    /\ scan.cachedMatches = stringifyMatches({[item |-> "r1", found |-> <<R2>>]})

\* C21: whenever a match scan runs while the user has zero open reports, the
\* displayed match map becomes empty, the stored signature and the stored
\* match map are removed, and no AI request is issued.
C21_NoOpenReportsClears ==
    [][\A reports \in ScanLists :
           ( ScanStart(reports) /\ myOpenReports(reports) = <<>> ) =>
               /\ scan'.matches = MatchMap({})
               /\ scan'.cachedSignature = NoSignature
               /\ scan'.cachedMatches = NoEntry
               /\ scan'.pc = "idle" /\ scan'.requests = 0]_vars

\* C21 witness: the second scan found no open report of the user; the map
\* is empty and nothing is stored.
C21_Witness ==
    /\ scan.pc = "idle" /\ scan.scans = 2 /\ scan.last = "cleared"
    /\ scan.matches = MatchMap({}) /\ scan.cachedSignature = NoSignature
    /\ scan.cachedMatches = NoEntry

\* The text a coercion is claimed to read: between the first opening brace
\* or bracket and the last closer of its kind, code fences of any letter
\* case removed.
ClaimedSegment(text) ==
    betweenDelimiters(trim(removeAll(removeAll(text, S_FenceJson, TRUE), S_Fence, TRUE)))

ClaimedCoercion(text) ==
    LET seg == ClaimedSegment(text)
        value == jsonParse(seg.text)
    IN IF seg.found /\ value.k = "value" /\ value.kind \in {"object", "array"}
       THEN value ELSE EmptyObject

\* C22: for every input string (empty, in prose, in code fences of any
\* letter case, without brace or bracket, with unbalanced braces) the JSON
\* coercion returns the parsed object or array found between the first
\* opening brace or bracket and its matching last closer, or an empty
\* object; it never throws to its caller.
C22_CoercionTotal ==
    json.pc = "parsed" =>
        /\ json.out.k # "throw"
        /\ json.out = ClaimedCoercion(json.text)

\* C23: when a candidate model's request fails with quota-exceeded or
\* rate-limited, the model is added to the session exclusion set and a
\* backoff wait elapses before the request to the next candidate is
\* issued: the failure is not answered by the next request at once.
C23_BackoffBeforeNext ==
    [][\A c \in Callers :
           ( GauntletError(c) /\ Classify(calls'[c].lastErr) = "quota" ) =>
               /\ calls[c].pipeline[calls[c].idx] \in sessionBans'
               /\ calls'[c].inflight = {}]_vars

\* Letters, digits, the underscore and white space are no punctuation.
IsPunctuation(c) == ~IsWordChar(c) /\ ~IsSpaceChar(c) /\ c \notin {"é", "É"}

\* A text lowercased and stripped of punctuation, and its tokens longer
\* than 3 characters.
StripPunctuation(s) ==
    LET l == toLowerCase(s) IN RemoveChars(l, {c \in Range(l) : IsPunctuation(c)})

LongTokens(item) ==
    {w \in Range(SplitSpaces(StripPunctuation(item.title \o <<" ">> \o join(item.tags, <<" ">>)))) :
         Len(w) > 3}

ClaimedScore(item1, item2) ==
    LET n == Cardinality(LongTokens(item1) \cap LongTokens(item2))
        l1 == StripPunctuation(item1.location)
        l2 == StripPunctuation(item2.location)
    IN (IF n > 0 THEN 40 + 15 * n ELSE 0)
       + (IF includes(l1, l2) \/ includes(l2, l1) THEN 20 ELSE 0)

\* C24: for two reports of opposite type and equal category the score is
\* (40 + 15*n if n > 0, else 0) plus (20 if one report's normalized location
\* contains the other's, else 0), n the number of distinct tokens longer
\* than 3 characters that the lowercased, punctuation-stripped
\* title-plus-tags texts of the two reports have in common.
C24_ScoreFormula ==
    ( /\ heur.pc = "scored"
      /\ heur.a.id # heur.b.id
      /\ heur.a.type # heur.b.type
      /\ heur.a.category = heur.b.category ) =>
        heur.score = ClaimedScore(heur.a, heur.b)

\* The parsed answer of the call, and a confidence field that is absent or
\* not numeric: undefined, null, or a string that parses to no number.
Answer == ParseValue(callPuterAI(orch.out))

NotNumeric(v) ==
    \/ v.t \in {"undef", "null"}
    \/ v.t = "str" /\ parseFloat(ReplaceFirst(v.s, "%")).t = "nan"

\* C25: when the confidence field of a model answer is absent or not
\* numeric (a string that does not parse as a number included), the
\* resulting confidence is 50 for a comparison result and 0 for a match
\* candidate.
C25_ConfidenceDefaults ==
    /\ ( Completed("compareItems") /\ orch.result.src = "ai"
         /\ NotNumeric(Answer.confidence) ) =>
           orch.result.confidence = Whole(50)
    /\ ( Completed("findSmartMatches") /\ orch.result.k = "return"
         /\ orch.result.src = "ai" /\ Len(Answer.matches.items) = 1
         /\ Answer.matches.items[1].t = "obj"
         /\ NotNumeric(Answer.matches.items[1].confidence) ) =>
           \A i \in DOMAIN orch.result.matches :
               orch.result.matches[i].confidence = Whole(0)

\* The candidates left by the filter of the call, and those of them that
\* have the source's category.
FilteredCandidates == filterCandidates(orch.item1, orch.allReports)

SameCategory ==
    FilterSeq(FilteredCandidates,
              {c \in Range(FilteredCandidates) : c.category = orch.item1.category})

UpToCap(list) ==
    IF Len(list) > CandidateCap THEN SubSeq(list, 1, CandidateCap) ELSE list

\* C26: in findSmartMatches, if the source's category is not Other and some
\* filtered candidate has the source's category, only the candidates of
\* that category are considered (sent to the model, scored locally) and
\* returned; otherwise the category narrowing leaves the filtered list as
\* it is.
C26_CategoryNarrowing ==
    ( orch.op = "findSmartMatches" /\ orch.pc \in {"await", "done"} ) =>
        IF orch.item1.category # "Other" /\ SameCategory # <<>>
        THEN /\ orch.candidates = UpToCap(SameCategory)
             /\ ( orch.pc = "done" /\ orch.result.k = "return" ) =>
                    \A i \in DOMAIN orch.result.matches :
                        orch.result.matches[i].report.category = orch.item1.category
        ELSE orch.candidates = UpToCap(FilteredCandidates)

\* C26 witness: a call that narrowed three filtered candidates to the two
\* of the source's category has returned one of them.
C26_Witness ==
    /\ Completed("findSmartMatches") /\ orch.result.k = "return"
    /\ Len(FilteredCandidates) = 3 /\ Len(orch.candidates) = 2
    /\ orch.result.matches # <<>>

FindCall == orch.op \in {"findSmartMatches", "findSmartMatchesCascade"}

\* C27: the request a find-candidates call builds contains at most 10
\* candidates, and every report the call returns is one of the candidates
\* of the request: an id of the model's answer that is not in the list
\* sent to the model produces no result entry.
C27_RequestCapped ==
    ( FindCall /\ orch.pc \in {"await", "done"} ) =>
        /\ Len(orch.aiCandidates) <= CandidateCap
        /\ ( orch.pc = "done" /\ orch.result.k = "return" ) =>
               \A i \in DOMAIN orch.result.matches :
                   \E j \in DOMAIN orch.aiCandidates :
                       orch.aiCandidates[j] = orch.result.matches[i].report

\* Every request of the call failed: callPuterAI resolves with null.
AllModelsFail == ProviderOutcome("throw", EmptyText, FALSE)

\* A text that is not the JSON of an object, and for findSmartMatches also
\* the JSON of an object whose matches is not a list.
NotAnObject(text) ==
    ~Falsy(text) /\ ( ParseThrows(text) \/ ParseValue(text).t \in {"null", "scalar"} )

NotTheFindContract(text) ==
    \/ NotAnObject(text)
    \/ ~Falsy(text) /\ ParseValue(text).matches.t = "object"

\* C28: when the model's text cannot be coerced to the JSON the operation
\* expects, findSmartMatches and compareItems complete with the result
\* they complete with when every model fails, for the same source and
\* reports: the entries and flags of the local fallback.
C28_MalformedAsExhausted ==
    /\ ( Completed("findSmartMatches") /\ NotTheFindContract(callPuterAI(orch.out)) ) =>
           orch.result \in findSmartMatchesAfterAI(orch.item1, orch.candidates,
                                                   AllModelsFail)
    /\ ( Completed("compareItems") /\ orch.result.src # "precheck"
         /\ NotAnObject(callPuterAI(orch.out)) ) =>
           orch.result = compareItemsAfterAI(orch.item1, orch.item2, AllModelsFail)

\* The batch the latest run of u's reconciliation has issued.
IssuedBatch(c, u) == c.client[u].queue[Len(c.client[u].queue)]

\* C29: read reconciliation writes unreadCount = 0 exactly when the chat it
\* views has unreadCount > 0 and a lastSenderId other than the viewer, and
\* it does so in the batch of the per-message READ updates, which is
\* applied as a whole or not at all; when lastSenderId is the viewer it
\* leaves unreadCount as it is; and it never changes lastSenderId,
\* lastMessage or lastMessageTime.
C29_ResetInSameBatch ==
    [][\A u \in ChatUsers :
           /\ MarkAsRead(u) =>
                  LET view == chat.client[u].view
                      b == IssuedBatch(chat', u)
                  IN /\ b.reset <=> ( view.summary.unreadCount > 0
                                      /\ view.summary.lastSenderId # u )
                     /\ b.ids = {view.sub[i].id :
                                    i \in {j \in DOMAIN view.sub :
                                               /\ view.sub[j].senderId # u
                                               /\ view.sub[j].status # "read"}}
                     /\ Len(chat'.client[u].queue) = Len(chat.client[u].queue) + 1
                     /\ chat'.store = chat.store
           /\ CommitOk(u) =>
                  LET b == Head(chat.client[u].queue)
                  IN /\ chat'.store.summary.unreadCount =
                            IF b.reset THEN 0 ELSE chat.store.summary.unreadCount
                     /\ DOMAIN chat'.store.sub = DOMAIN chat.store.sub
                     /\ \A i \in DOMAIN chat.store.sub :
                            chat'.store.sub[i] =
                                IF chat.store.sub[i].id \in b.ids
                                THEN [chat.store.sub[i] EXCEPT !.status = "read"]
                                ELSE chat.store.sub[i]
                     /\ chat'.store.summary.lastSenderId = chat.store.summary.lastSenderId
                     /\ chat'.store.summary.lastMessage = chat.store.summary.lastMessage
                     /\ chat'.store.summary.lastMessageTime =
                            chat.store.summary.lastMessageTime
           /\ CommitFail(u) => chat'.store = chat.store]_vars

\* C29 witness: U2 views the chat whose last sender is U1; the batch of its
\* reconciliation, with a READ update and the reset, is issued and not yet
\* applied.
C29_Witness ==
    /\ chat.pc = "run" /\ chat.client["U2"].queue # <<>>
    /\ Head(chat.client["U2"].queue).reset
    /\ Head(chat.client["U2"].queue).ids # {}
    /\ chat.store.summary.unreadCount > 0
    /\ chat.store.summary.lastSenderId = "U1"

\* What a run of the reconciliation on this view writes.
BatchOf(view, u) == Batch(unreadDocs(view, u), needsReset(view, u))
DocsOf(view) == [sub |-> view.sub, summary |-> view.summary]

PuterCompleted ==
    /\ orch.pc = "done"
    /\ orch.op \in {"compareItems", "findSmartMatches", "extractVisualDetails"}
    /\ orch.out.shape \notin {"none", "noputer", "throw"}

\* The response carries its text in one of the three known places.
KnownShape(out) ==
    \/ out.shape = "string"
    \/ out.shape \in {"message", "text"} /\ out.body.k # "empty"

\* The result of the call when callPuterAI gives no text.
FailureBranch ==
    IF orch.op = "compareItems"
    THEN {compareItemsAfterAI(orch.item1, orch.item2, AllModelsFail)}
    ELSE IF orch.op = "findSmartMatches"
    THEN findSmartMatchesAfterAI(orch.item1, orch.candidates, AllModelsFail)
    ELSE {extractVisualDetailsAfterAI(AllModelsFail)}

\* C31: callPuterAI returns the plain text of a raw string response, of a
\* {message: {content}} response and of a {text} response; for a response
\* of any other shape it returns no text, and the caller takes its failure
\* branch instead of parsing a serialization of the unknown object.
C31_UnknownShapeFailsClosed ==
    PuterCompleted =>
        IF KnownShape(orch.out)
        THEN callPuterAI(orch.out) = orch.out.body
        ELSE /\ Falsy(callPuterAI(orch.out))
             /\ orch.result \in FailureBranch

\* The component a scan belongs to is gone.
Orphaned(d, i) == ~d.mounted \/ d.runs[i].instance # d.instance

\* C32: a scan that is in flight when the dashboard is unmounted is not
\* aborted, and when it completes its result is discarded: it changes
\* neither the displayed matches nor the stored signature and match map.
C32_UnmountedResultDiscarded ==
    [][\A i \in 1..MaxRuns :
           ( RunFinish(i) /\ Orphaned(dash, i) ) =>
               /\ dash'.matches = dash.matches
               /\ dash'.cachedSignature = dash.cachedSignature
               /\ dash'.cachedMatches = dash.cachedMatches]_vars

\* C36: when the reports change while a scan is in flight and a newer scan
\* is started, the displayed match map, the stored signature and the stored
\* match map are, after both have finished, those of the scan started
\* last: an older scan that finishes after a newer one overwrites nothing;
\* and the stored signature and the stored map come from the same scan.
C36_NewestScanWins ==
    [][\A i \in 1..MaxRuns :
           ( RunFinish(i) /\ \E j \in DOMAIN dash.runs : j > i /\ dash.runs[j].pc = "done" ) =>
               /\ dash'.matches = dash.matches
               /\ dash'.cachedSignature = dash.cachedSignature
               /\ dash'.cachedMatches = dash.cachedMatches]_vars

\* The dashboard shows the outcome of its latest scan: no timer is pending
\* and no scan is in flight.
Settled ==
    /\ dash.pc = "run" /\ dash.mounted /\ ~dash.timer
    /\ dash.runs # <<>> /\ RunsInFlight(dash) = {}

ReportWithId(reports, id) ==
    reports[CHOOSE k \in DOMAIN reports : reports[k].id = id]

\* C37: after any sequence of report changes and scans, every report in
\* the displayed match map is at present OPEN, of the type opposite to the
\* item it is listed under, and not reported by the user; a report that has
\* become RESOLVED is gone from the displayed matches after the next scan,
\* also when that scan is answered from the signature cache.
C37_DisplayedMatchesCurrent ==
    ( Settled /\ dash.matches.t = "map" ) =>
        \A e \in dash.matches.m :
            \A k \in DOMAIN e.found :
                /\ \E n \in DOMAIN dash.reports :
                       /\ dash.reports[n].id = e.found[k].id
                       /\ dash.reports[n].status = "OPEN"
                       /\ dash.reports[n].reporterId # ScanUser
                       /\ \E m \in DOMAIN dash.reports :
                              /\ dash.reports[m].id = e.item
                              /\ dash.reports[m].type # dash.reports[n].type

RECURSIVE Flatten(_)
Flatten(lists) ==
    IF lists = <<>> THEN <<>> ELSE Head(lists) \o Flatten(Tail(lists))

\* The matches a batch that succeeded has answered with.
MatchesOf(out) == IF out.k = "matches" THEN out.ids ELSE <<>>

\* C33: findPotentialMatches splits the candidates into consecutive batches
\* of at most 10, every candidate in exactly one batch, processes them one
\* after another and returns the matches of all batches that succeeded: a
\* batch whose request or parse fails contributes nothing, does not stop
\* the later batches and does not discard the matches of the others.
C33_BatchesIndependent ==
    /\ fpm.pc \in {"loop", "done"} =>
           /\ \A b \in DOMAIN fpm.sent :
                  /\ Len(fpm.sent[b]) \in 1..BATCH_SIZE
                  /\ b < Len(fpm.sent) => Len(fpm.sent[b]) = BATCH_SIZE
           /\ Flatten(fpm.sent) = SubSeq(fpm.candidates, 1, Len(Flatten(fpm.sent)))
           /\ Len(fpm.answers) = Len(fpm.sent)
    /\ fpm.pc = "done" =>
           /\ Flatten(fpm.sent) = fpm.candidates
           /\ fpm.result.k = "return"
           /\ fpm.result.matches =
                  Flatten([b \in DOMAIN fpm.answers |-> MatchesOf(fpm.answers[b])])

\* C33 witness: 21 candidates went out in three batches; the second request
\* failed, and the matches of the first and of the third are returned.
C33_Witness ==
    /\ fpm.pc = "done" /\ Len(fpm.candidates) = 21 /\ Len(fpm.sent) = 3
    /\ fpm.answers[1].k = "matches" /\ fpm.answers[1].ids = <<1>>
    /\ fpm.answers[2].k = "throw"
    /\ fpm.answers[3].k = "matches" /\ fpm.answers[3].ids = <<21>>
    /\ fpm.result.matches = <<1, 21>>

\* The messages of the chat: the legacy list and the subcollection.
AllStored(c) ==
    {c.store.legacy[i] : i \in DOMAIN c.store.legacy}
    \cup {c.store.sub[i] : i \in DOMAIN c.store.sub}

\* C34: in every reachable state of a direct chat, whatever the
\* interleaving of a sender's append and summary update with the other
\* participant's reconciliation and closing of the chat: if unreadCount > 0
\* and lastSenderId is X, some message authored by X has status sent, so
\* that no unread badge is shown to a participant who has read everything.
C34_BadgeHasUnreadMessage ==
    ( chat.pc = "run" /\ chat.store.summary.unreadCount > 0 ) =>
        \E m \in AllStored(chat) :
            m.senderId = chat.store.summary.lastSenderId /\ m.status = "sent"

\* The entries of the result carry the confidences of the model's answer:
\* the answer parsed to an object with a non-empty list of matches.
FromModelAnswer ==
    LET text == callPuterAI(orch.out)
    IN /\ ~Falsy(text) /\ ~ParseThrows(text) /\ ParseValue(text).t # "null"
       /\ ParseValue(text).matches.t = "arr"
       /\ ParseValue(text).matches.items # <<>>

\* C39: in the result of findSmartMatches the isOffline flag of every entry
\* is true exactly when the entry's confidence is a local score and false
\* exactly when it is taken from the model's answer, also when the model
\* answered with an empty list of matches.
C39_OfflineFlagExact ==
    ( Completed("findSmartMatches") /\ orch.result.k = "return" ) =>
        \A i \in DOMAIN orch.result.matches :
            orch.result.matches[i].isOffline <=> ~FromModelAnswer

\* C38: with two calls of generateWithGauntlet overlapping in one session
\* and sharing the exclusion set, no request is issued to a model that is
\* in the exclusion set: once one call has excluded a model, the other call
\* in flight does not request it.
C38_NoRequestToExcluded ==
    [][\A c \in Callers :
           ( calls'[c].pc = "await" /\ calls'[c] # calls[c] ) =>
               \A m \in calls'[c].inflight : m \notin sessionBans']_vars

\* C35: every per-message READ update that read reconciliation issues
\* addresses a message of the chat that is active when it is issued, also in
\* the render in which the active chat has just changed while the view still
\* lists the previous chat's messages; and no batch that carries the
\* unreadCount reset is rejected because a document it updates does not exist.
C35_ReadUpdatesAddressActiveChat ==
    sel.pc # "idle" =>
        /\ \A i \in DOMAIN sel.queue :
               \A id \in sel.queue[i].ids : chatOf(sel, id) = sel.queue[i].chat
        /\ ~sel.notFound.reset

=============================================================================
